---- MODULE Spec2Model ----
(***************************************************************************)
(* Order-status state machine, inventory reservation and the commission /  *)
(* wallet settlement engine of the marketplace backend.                    *)
(*                                                                         *)
(* Money is an integer count of 1/10000 of a currency unit, so that        *)
(* total * rate / 100 is exact for totals given in hundredths and integer  *)
(* percentage rates (1000.00 is 10000000).                                 *)
(***************************************************************************)
EXTENDS Integers, Sequences, FiniteSets, TLC

(* ---------------------------------------------------------------------- *)
(* Bounds of the model                                                    *)
(* ---------------------------------------------------------------------- *)
MaxCommissions == 3
MaxTxns == 3
MaxReserved == 5
MaxClock == 1
MaxBalance == 1800
MaxTasks == 2

(* ---------------------------------------------------------------------- *)
(* Program constants                                                      *)
(* ---------------------------------------------------------------------- *)
DefaultGlobalCommissionRate == 10
DefaultDeliveryCommissionRate == 5

(* ---------------------------------------------------------------------- *)
(* Fixed data: the documents the operations read but never write          *)
(* ---------------------------------------------------------------------- *)
Max(a, b) == IF a >= b THEN a ELSE b

NoValue == "undefined"

Orders == {"o1", "o2"}
SellerIds == {"sA", "sB"}
DeliveryIds == {"d1", "d2"}
CustomerIds == {"c1"}
Products == {"p1", "p2"}
Payees == SellerIds \cup DeliveryIds

\* OrderItem documents: order, seller, product, quantity, total
OrderItem ==
  [i1 |-> [id |-> "i1", order |-> "o1", seller |-> "sA", product |-> "p1",
           quantity |-> 2, total |-> 10000000],
   i2 |-> [id |-> "i2", order |-> "o1", seller |-> "sB", product |-> "p2",
           quantity |-> 1, total |-> 5000000],
   i3 |-> [id |-> "i3", order |-> "o2", seller |-> "sA", product |-> "p1",
           quantity |-> 2, total |-> 2000000]]

\* Order documents (the fields no operation of the model writes)
OrderDoc ==
  [o1 |-> [items |-> <<"i1", "i2">>, orderNumber |-> "ORD1", subtotal |-> 15000000,
           deliveryBoy |-> "d1", deliveryDistanceKm |-> 125000],
   o2 |-> [items |-> <<"i3">>, orderNumber |-> "ORD2", subtotal |-> 2000000,
           deliveryBoy |-> NoValue, deliveryDistanceKm |-> 0]]

\* Seller.commission, the seller's individually configured rate
SellerCommission == [sA |-> 10, sB |-> 0]

\* Delivery.commissionRate (-1: undefined, not configured)
DeliveryCommissionRate == [d1 |-> -1, d2 |-> 7]

\* Product taxonomy references and the override rates of the taxonomy nodes
ProductDoc ==
  [p1 |-> [subSubCategory |-> NoValue, subcategory |-> NoValue, category |-> "cat1"],
   p2 |-> [subSubCategory |-> NoValue, subcategory |-> "sub1", category |-> "cat1"]]
CategoryRate == [cat1 |-> 0, sub1 |-> 0]

\* AppSettings documents the model starts from (present = FALSE: no document;
\* globalCommissionRate -1: undefined)
SettingsChoices ==
  { [present |-> FALSE, globalCommissionRate |-> -1, isDistanceBased |-> FALSE,
     deliveryBoyKmRate |-> 0],
    [present |-> TRUE, globalCommissionRate |-> -1, isDistanceBased |-> TRUE,
     deliveryBoyKmRate |-> 8] }

(* ---------------------------------------------------------------------- *)
(* Order statuses and the transition validator                            *)
(* ---------------------------------------------------------------------- *)
Statuses == {"Received", "Pending", "Processed", "Shipped", "Out for Delivery",
             "Delivered", "Cancelled", "Rejected", "Returned"}

\* Status strings a caller can pass: the nine statuses and two that the
\* transition table does not know
StatusInputs == Statuses \cup {"Failed", "Confirmed"}

validTransitions_TerminalReopens ==
  [Received |-> <<"Pending", "Cancelled", "Rejected">>,
   Pending |-> <<"Processed", "Cancelled", "Rejected">>,
   Processed |-> <<"Shipped", "Cancelled", "Rejected">>,
   Shipped |-> <<"Out for Delivery", "Cancelled", "Rejected">>,
   Delivered |-> <<"Returned">>,
   Cancelled |-> <<"Pending">>,
   Rejected |-> <<>>,
   Returned |-> <<>>]
  @@ ("Out for Delivery" :> <<"Delivered", "Cancelled", "Rejected">>)

validTransitions_ShippedDelivers ==
  [Received |-> <<"Pending", "Cancelled", "Rejected">>,
   Pending |-> <<"Processed", "Cancelled", "Rejected">>,
   Processed |-> <<"Shipped", "Cancelled", "Rejected">>,
   Shipped |-> <<"Out for Delivery", "Delivered", "Cancelled", "Rejected">>,
   Delivered |-> <<"Returned">>,
   Cancelled |-> <<>>,
   Rejected |-> <<>>,
   Returned |-> <<>>]
  @@ ("Out for Delivery" :> <<"Delivered", "Cancelled", "Rejected">>)

validTransitions ==
  [Received |-> <<"Pending", "Cancelled", "Rejected">>,
   Pending |-> <<"Processed", "Cancelled", "Rejected">>,
   Processed |-> <<"Shipped", "Cancelled", "Rejected">>,
   Shipped |-> <<"Out for Delivery", "Cancelled", "Rejected">>,
   Delivered |-> <<"Returned">>,
   Cancelled |-> <<>>,
   Rejected |-> <<>>,
   Returned |-> <<>>]
  @@ ("Out for Delivery" :> <<"Delivered", "Cancelled", "Rejected">>)

SeqToSet(s) == {s[k] : k \in 1..Len(s)}

\* validTransitions[currentStatus] || []
allowedStatuses(currentStatus) ==
  IF currentStatus \in DOMAIN validTransitions
    THEN validTransitions[currentStatus]
    ELSE <<>>

\* The message is kept as its parts: the two statuses and the joined list
validStatusMessage_NoList(currentStatus, newStatus) ==
  [from |-> currentStatus, to |-> newStatus, validTransitions |-> <<>>]

validStatusMessage(currentStatus, newStatus) ==
  [from |-> currentStatus, to |-> newStatus,
   validTransitions |-> allowedStatuses(currentStatus)]

validateStatusTransition(currentStatus, newStatus) ==
  IF newStatus \notin SeqToSet(allowedStatuses(currentStatus))
    THEN [valid |-> FALSE, message |-> validStatusMessage(currentStatus, newStatus)]
    ELSE [valid |-> TRUE]

(* ---------------------------------------------------------------------- *)
(* Inventory reservation                                                  *)
(* ---------------------------------------------------------------------- *)
\* one iteration of the loop of reserveInventory
reserveItem(inv, item) ==
  IF item.product \in DOMAIN inv
    THEN [inv EXCEPT ![item.product] =
           [currentStock |-> @.currentStock,
            reservedStock |-> @.reservedStock + item.quantity,
            availableStock |->
              Max(0, @.currentStock - (@.reservedStock + item.quantity))]]
    ELSE inv

RECURSIVE reserveInventory(_, _)
reserveInventory(inv, items) ==
  IF items = <<>> THEN inv
  ELSE reserveInventory(reserveItem(inv, OrderItem[Head(items)]), Tail(items))

\* one iteration of the loop of restoreInventory
restoreItem_OffByOne(inv, item) ==
  IF item.product \in DOMAIN inv
    THEN [inv EXCEPT ![item.product] =
           [currentStock |-> @.currentStock,
            reservedStock |-> Max(0, @.reservedStock - item.quantity - 1),
            availableStock |->
              @.currentStock - Max(0, @.reservedStock - item.quantity - 1)]]
    ELSE inv

restoreItem(inv, item) ==
  IF item.product \in DOMAIN inv
    THEN [inv EXCEPT ![item.product] =
           [currentStock |-> @.currentStock,
            reservedStock |-> Max(0, @.reservedStock - item.quantity),
            availableStock |->
              @.currentStock - Max(0, @.reservedStock - item.quantity)]]
    ELSE inv

RECURSIVE restoreInventory(_, _)
restoreInventory(inv, items) ==
  IF items = <<>> THEN inv
  ELSE restoreInventory(restoreItem(inv, OrderItem[Head(items)]), Tail(items))

(* ---------------------------------------------------------------------- *)
(* Ledger: commission records, payee balances, wallet transactions        *)
(* A ledger value L is [commissions, balance, walletTxns].                *)
(* ---------------------------------------------------------------------- *)
CommissionsOfOrder(commissions, orderId) ==
  {k \in 1..Len(commissions) : commissions[k].order = orderId}

References(walletTxns) == {walletTxns[k].reference : k \in 1..Len(walletTxns)}

\* Math.round(x * 100) / 100 for x >= 0, in 1/10000 units
Round2(x) == ((x + 50) \div 100) * 100

\* walletManagementService.creditWallet: the payee's balance and the Credit
\* entry change together; the reference is derived from the order, the payee
\* and the commission record
creditWallet(L, userId, userType, amount, orderId, commissionId) ==
  [L EXCEPT
     !.balance = [@ EXCEPT ![userId] = @ + amount],
     !.walletTxns = Append(@,
        [payee |-> userId, payeeType |-> userType, amount |-> amount,
         type |-> "Credit", status |-> "Completed",
         reference |-> [kind |-> "COMM", order |-> orderId, token |-> commissionId,
                        payee |-> userId]])]

\* walletManagementService.debitWallet: the offsetting Debit entry
debitWallet(L, userId, userType, amount, orderId) ==
  [L EXCEPT
     !.balance = [@ EXCEPT ![userId] = @ - amount],
     !.walletTxns = Append(@,
        [payee |-> userId, payeeType |-> userType, amount |-> amount,
         type |-> "Debit", status |-> "Completed",
         reference |-> [kind |-> "REV", order |-> orderId, token |-> Len(@) + 1,
                        payee |-> userId]])]

(* ----- the Delivered hook of processOrderStatusTransition ----- *)
\* seller.commission || 0
hookCommissionRate(sellerId) ==
  IF SellerCommission[sellerId] > 0 THEN SellerCommission[sellerId] ELSE 0

\* First pass over the items: one Pending record per item whose seller exists,
\* and the net earnings aggregated per seller in order of first appearance.
\* acc is [commissions, sellerOrder, netEarning].
RECURSIVE hookFirstPass(_, _, _)
hookFirstPass(acc, items, existing) ==
  IF items = <<>> THEN acc
  ELSE LET item == OrderItem[Head(items)]
           commissionRate == hookCommissionRate(item.seller)
           commissionAmount == (item.total * commissionRate) \div 100
           netEarning == item.total - commissionAmount
       IN IF item.seller \notin existing
            THEN hookFirstPass(acc, Tail(items), existing)
            ELSE hookFirstPass(
                   [commissions |-> Append(acc.commissions,
                       [order |-> item.order, orderItem |-> item.id,
                        seller |-> item.seller, deliveryBoy |-> NoValue,
                        type |-> NoValue, orderAmount |-> item.total,
                        commissionRate |-> commissionRate,
                        commissionAmount |-> commissionAmount,
                        status |-> "Pending"]),
                    sellerOrder |-> IF item.seller \in SeqToSet(acc.sellerOrder)
                                      THEN acc.sellerOrder
                                      ELSE Append(acc.sellerOrder, item.seller),
                    netEarning |-> [acc.netEarning EXCEPT ![item.seller] = @ + netEarning]],
                   Tail(items), existing)

\* Second pass: per seller, save the balance, then insert the Credit entry.
\* The insert is rejected when the reference is already in the collection
\* (unique index); the balance saved just before it stays.
\* Result is [L, threw].
RECURSIVE hookSecondPass_NoIndex(_, _, _, _, _)
hookSecondPass_NoIndex(L, sellerOrder, netEarning, orderId, now) ==
  IF sellerOrder = <<>> THEN [L |-> L, threw |-> FALSE]
  ELSE LET sellerId == Head(sellerOrder)
           ref == [kind |-> "ORD", order |-> orderId, token |-> now, payee |-> sellerId]
           saved == [L EXCEPT !.balance = [@ EXCEPT ![sellerId] = @ + netEarning[sellerId]]]
       IN hookSecondPass_NoIndex(
            [saved EXCEPT !.walletTxns = Append(@,
               [payee |-> sellerId, payeeType |-> "SELLER",
                amount |-> netEarning[sellerId], type |-> "Credit",
                status |-> "Completed", reference |-> ref])],
            Tail(sellerOrder), netEarning, orderId, now)

RECURSIVE hookSecondPass(_, _, _, _, _)
hookSecondPass(L, sellerOrder, netEarning, orderId, now) ==
  IF sellerOrder = <<>> THEN [L |-> L, threw |-> FALSE]
  ELSE LET sellerId == Head(sellerOrder)
           ref == [kind |-> "ORD", order |-> orderId, token |-> now, payee |-> sellerId]
           saved == [L EXCEPT !.balance = [@ EXCEPT ![sellerId] = @ + netEarning[sellerId]]]
       IN IF ref \in References(L.walletTxns)
            THEN [L |-> saved, threw |-> TRUE]
            ELSE hookSecondPass(
                   [saved EXCEPT !.walletTxns = Append(@,
                      [payee |-> sellerId, payeeType |-> "SELLER",
                       amount |-> netEarning[sellerId], type |-> "Credit",
                       status |-> "Completed", reference |-> ref])],
                   Tail(sellerOrder), netEarning, orderId, now)

createCommissions(L, items, existing, now) ==
  LET first == hookFirstPass([commissions |-> L.commissions, sellerOrder |-> <<>>,
                              netEarning |-> [s \in SellerIds |-> 0]],
                             items, existing)
  IN hookSecondPass([L EXCEPT !.commissions = first.commissions],
                    first.sellerOrder, first.netEarning,
                    OrderItem[items[1]].order, now)

(* ----- commissionService.createPendingCommissions ----- *)
\* Rate of a taxonomy node reference: 0 when the product has no such node,
\* the node is missing or its commissionRate is unset
nodeRate(ref) == IF ref \in DOMAIN CategoryRate THEN CategoryRate[ref] ELSE 0

\* settings.globalCommissionRate when a settings document defines it, else 10
globalDefaultRate(st) ==
  IF st.present /\ st.globalCommissionRate # -1
    THEN st.globalCommissionRate
    ELSE DefaultGlobalCommissionRate

\* The priority chain of lines 210-257 over the five sources
resolveRate_SellerFirst(subSubCatRate, subCatRate, catRate, sellerRate, st) ==
  LET r1 == IF sellerRate > 0 THEN sellerRate ELSE 0
      r2 == IF r1 = 0 /\ subSubCatRate > 0 THEN subSubCatRate ELSE r1
      r3 == IF r2 = 0 /\ subCatRate > 0 THEN subCatRate ELSE r2
      r4 == IF r3 = 0 /\ catRate > 0 THEN catRate ELSE r3
  IN IF r4 = 0 THEN globalDefaultRate(st) ELSE r4

resolveRate(subSubCatRate, subCatRate, catRate, sellerRate, st) ==
  LET r1 == IF subSubCatRate > 0 THEN subSubCatRate ELSE 0
      r2 == IF r1 = 0 /\ subCatRate > 0 THEN subCatRate ELSE r1
      r3 == IF r2 = 0 /\ catRate > 0 THEN catRate ELSE r2
      r4 == IF r3 = 0 /\ sellerRate > 0 THEN sellerRate ELSE r3
  IN IF r4 = 0 THEN globalDefaultRate(st) ELSE r4

sellerRateForItem(item, st) ==
  LET product == ProductDoc[item.product]
  IN resolveRate(nodeRate(product.subSubCategory), nodeRate(product.subcategory),
                 nodeRate(product.category), SellerCommission[item.seller], st)

\* the commission record of a line item (lines 259-275)
sellerRecord(item, st) ==
  LET commissionRate == sellerRateForItem(item, st)
      commissionAmount == (item.total * commissionRate) \div 100
  IN [order |-> item.order, orderItem |-> item.id, seller |-> item.seller,
      deliveryBoy |-> NoValue, type |-> "SELLER",
      orderAmount |-> item.total, commissionRate |-> commissionRate,
      commissionAmount |-> commissionAmount, status |-> "Paid"]

settleItem_CreditsTotal(L, item, existing, st) ==
  IF item.seller \notin existing THEN L
  ELSE LET record == sellerRecord(item, st)
           withRecord == [L EXCEPT !.commissions = Append(@, record)]
       IN creditWallet(withRecord, item.seller, "SELLER", item.total, item.order,
                       Len(withRecord.commissions))

\* One iteration of the loop over the items: skip when the seller is missing,
\* else a Paid record and the wallet credit of the net earning
settleItem(L, item, existing, st) ==
  IF item.seller \notin existing THEN L
  ELSE LET record == sellerRecord(item, st)
           netEarning == item.total - record.commissionAmount
           withRecord == [L EXCEPT !.commissions = Append(@, record)]
       IN creditWallet(withRecord, item.seller, "SELLER", netEarning, item.order,
                       Len(withRecord.commissions))

RECURSIVE settleItems_StopAtMissing(_, _, _, _)
settleItems_StopAtMissing(L, items, existing, st) ==
  IF items = <<>> THEN L
  ELSE IF OrderItem[Head(items)].seller \notin existing THEN L
  ELSE settleItems_StopAtMissing(settleItem(L, OrderItem[Head(items)], existing, st),
                                 Tail(items), existing, st)

RECURSIVE settleItems(_, _, _, _)
settleItems(L, items, existing, st) ==
  IF items = <<>> THEN L
  ELSE settleItems(settleItem(L, OrderItem[Head(items)], existing, st),
                   Tail(items), existing, st)

\* the check of lines 186-190
commissionsAlreadyExist_Never(L, orderId) == FALSE

commissionsAlreadyExist(L, orderId) == CommissionsOfOrder(L.commissions, orderId) # {}

createPendingCommissions(L, orderId, existing, st) ==
  IF commissionsAlreadyExist(L, orderId) THEN L
  ELSE settleItems(L, OrderDoc[orderId].items, existing, st)

(* ----- commissionService.calculateOrderCommissions ----- *)
\* getSellerCommissionRate: Seller.commissionRate when it is set (commissionRate
\* gives the field by seller, -1: undefined or null), else the settings'
\* global rate, else 10; 10 as well when the seller is not found (the throw of
\* line 22 is caught at lines 33-35)
getSellerCommissionRate(sellerId, existing, commissionRate, st) ==
  IF sellerId \notin existing THEN 10
  ELSE IF commissionRate[sellerId] # -1 THEN commissionRate[sellerId]
  ELSE globalDefaultRate(st)

\* the loop of lines 91-113: the Map of the sellers' commissions, here a
\* function of the seller (has: the Map has the key)
RECURSIVE sellerCommissions(_, _, _, _, _)
sellerCommissions(acc, items, existing, commissionRate, st) ==
  IF items = <<>> THEN acc
  ELSE LET orderItem == OrderItem[Head(items)]
           sellerId == orderItem.seller
           itemTotal == orderItem.total
           rate == getSellerCommissionRate(sellerId, existing, commissionRate, st)
           commissionAmount == (itemTotal * rate) \div 100
       IN sellerCommissions(
            [acc EXCEPT ![sellerId] =
               IF @.has
                 THEN [@ EXCEPT !.amount = @ + commissionAmount,
                                !.orderAmount = @ + itemTotal]
                 ELSE [has |-> TRUE, amount |-> commissionAmount, rate |-> rate,
                       orderAmount |-> itemTotal]],
            Tail(items), existing, commissionRate, st)

\* the `seller` list of the result of calculateOrderCommissions
calculateOrderCommissions(orderId, existing, commissionRate, st) ==
  sellerCommissions([s \in SellerIds |->
                       [has |-> FALSE, amount |-> 0, rate |-> 0, orderAmount |-> 0]],
                    OrderDoc[orderId].items, existing, commissionRate, st)

\* The loop when a write is rejected: failAt counts the writes of the
\* invocation (Commission.create, creditWallet, Commission.create, ...) up to
\* the one that throws. The catch of lines 292-295 rethrows; what was written
\* before stays. Result is [L, threw].
RECURSIVE settleItemsUntil(_, _, _, _, _)
settleItemsUntil(L, items, existing, st, failAt) ==
  IF items = <<>> THEN [L |-> L, threw |-> FALSE]
  ELSE LET item == OrderItem[Head(items)]
           withRecord == [L EXCEPT !.commissions = Append(@, sellerRecord(item, st))]
       IN IF item.seller \notin existing
            THEN settleItemsUntil(L, Tail(items), existing, st, failAt)
          ELSE IF failAt = 1 THEN [L |-> L, threw |-> TRUE]
          ELSE IF failAt = 2 THEN [L |-> withRecord, threw |-> TRUE]
          ELSE settleItemsUntil(settleItem(L, item, existing, st), Tail(items),
                                existing, st, failAt - 2)

createPendingCommissionsUntil(L, orderId, existing, st, failAt) ==
  IF commissionsAlreadyExist(L, orderId) THEN [L |-> L, threw |-> FALSE]
  ELSE settleItemsUntil(L, OrderDoc[orderId].items, existing, st, failAt)

(* ----- commissionService.distributeCommissions ----- *)
usesDistance(st, order) ==
  st.present /\ st.isDistanceBased /\ st.deliveryBoyKmRate # 0
  /\ order.deliveryDistanceKm > 0

\* the rate and the amount of the delivery leg
deliveryRate(st, order) ==
  IF usesDistance(st, order) THEN st.deliveryBoyKmRate
  ELSE IF DeliveryCommissionRate[order.deliveryBoy] # -1
         THEN DeliveryCommissionRate[order.deliveryBoy]
         ELSE DefaultDeliveryCommissionRate

deliveryAmount_OfSubtotal(st, order) ==
  (order.subtotal * deliveryRate(st, order)) \div 100

deliveryAmount(st, order) ==
  IF usesDistance(st, order)
    THEN order.deliveryDistanceKm * deliveryRate(st, order)
    ELSE (order.subtotal * deliveryRate(st, order)) \div 100

\* the commission record of the delivery leg (lines 358-367)
deliveryRecord(st, orderId, order) ==
  [order |-> orderId, orderItem |-> NoValue, seller |-> NoValue,
   deliveryBoy |-> order.deliveryBoy, type |-> "DELIVERY_BOY",
   orderAmount |-> IF usesDistance(st, order)
                     THEN order.deliveryDistanceKm ELSE order.subtotal,
   commissionRate |-> deliveryRate(st, order),
   commissionAmount |-> Round2(deliveryAmount(st, order)),
   status |-> "Paid"]

\* Result is [L, success]; an abort leaves L as it was
distributeCommissions(L, orderId, orderStatus, st) ==
  LET order == OrderDoc[orderId]
      existingDeliveryComm ==
        {k \in CommissionsOfOrder(L.commissions, orderId) :
           L.commissions[k].type = "DELIVERY_BOY"}
      withRecord ==
        [L EXCEPT !.commissions = Append(@, deliveryRecord(st, orderId, order))]
  IN IF orderStatus # "Delivered" THEN [L |-> L, success |-> FALSE]
     ELSE IF order.deliveryBoy # NoValue /\ existingDeliveryComm = {}
       THEN [L |-> creditWallet(withRecord, order.deliveryBoy, "DELIVERY_BOY",
                                Round2(deliveryAmount(st, order)), orderId,
                                Len(withRecord.commissions)),
             success |-> TRUE]
       ELSE [L |-> L, success |-> TRUE]

(* ----- commissionService.getCommissionSummary ----- *)
\* earningAmount of one record
earningAmount_Commission(c, userType) == c.commissionAmount

earningAmount(c, userType) ==
  IF userType = "SELLER" THEN c.orderAmount - c.commissionAmount
  ELSE c.commissionAmount

\* the forEach over the records the query found, from record k on
RECURSIVE summarize(_, _, _, _, _)
summarize(summary, records, userId, userType, k) ==
  IF k > Len(records) THEN summary
  ELSE LET c == records[k]
           matches == IF userType = "SELLER" THEN c.seller = userId
                      ELSE c.deliveryBoy = userId
           e == earningAmount(c, userType)
       IN IF ~matches THEN summarize(summary, records, userId, userType, k + 1)
          ELSE summarize(
                 [total |-> summary.total + e,
                  paid |-> IF c.status = "Paid" THEN summary.paid + e ELSE summary.paid,
                  pending |-> IF c.status # "Paid" /\ c.status = "Pending"
                                THEN summary.pending + e ELSE summary.pending,
                  count |-> summary.count + 1],
                 records, userId, userType, k + 1)

getCommissionSummary(records, userId, userType) ==
  summarize([total |-> 0, paid |-> 0, pending |-> 0, count |-> 0],
            records, userId, userType, 1)

(* ----- commissionService.reverseCommissions ----- *)
\* one iteration of the loop over the order's records (k: index of the record)
reverseOne_EditsCredit(L, k, orderId) ==
  LET commission == L.commissions[k]
      userId == IF commission.type = "SELLER" THEN commission.seller
                ELSE commission.deliveryBoy
      flipped == [L EXCEPT !.commissions[k].status = "Cancelled"]
  IN IF commission.status # "Paid" THEN L
     ELSE IF userId # NoValue
       THEN [flipped EXCEPT
               !.balance = [@ EXCEPT ![userId] = @ - commission.commissionAmount],
               !.walletTxns =
                 [t \in 1..Len(@) |->
                    IF @[t].payee = userId /\ @[t].reference.order = orderId
                      THEN [@[t] EXCEPT !.status = "Failed"] ELSE @[t]]]
       ELSE flipped

reverseOne_AnyStatus(L, k, orderId) ==
  LET commission == L.commissions[k]
      userId == IF commission.type = "SELLER" THEN commission.seller
                ELSE commission.deliveryBoy
      flipped == [L EXCEPT !.commissions[k].status = "Cancelled"]
  IN IF commission.status = "Pending" THEN L
     ELSE IF userId # NoValue
       THEN debitWallet(flipped, userId, commission.type,
                        commission.commissionAmount, orderId)
       ELSE flipped

reverseOne(L, k, orderId) ==
  LET commission == L.commissions[k]
      userId == IF commission.type = "SELLER" THEN commission.seller
                ELSE commission.deliveryBoy
      flipped == [L EXCEPT !.commissions[k].status = "Cancelled"]
  IN IF commission.status # "Paid" THEN L
     ELSE IF userId # NoValue
       THEN debitWallet(flipped, userId, commission.type,
                        commission.commissionAmount, orderId)
       ELSE flipped

RECURSIVE reverseFrom(_, _, _)
reverseFrom(L, k, orderId) ==
  IF k > Len(L.commissions) THEN L
  ELSE IF L.commissions[k].order = orderId
    THEN reverseFrom(reverseOne(L, k, orderId), k + 1, orderId)
    ELSE reverseFrom(L, k + 1, orderId)

reverseCommissions(L, orderId) == reverseFrom(L, 1, orderId)

\* The loop of lines 477-499 inside the transaction when a write is rejected:
\* failAt counts the writes of the invocation (commission.save, debitWallet,
\* commission.save, ...) up to the one that throws. Result is [L, threw], L
\* being what the transaction has written so far.
RECURSIVE reverseFromUntil(_, _, _, _)
reverseFromUntil(L, k, orderId, failAt) ==
  IF k > Len(L.commissions) THEN [L |-> L, threw |-> FALSE]
  ELSE LET commission == L.commissions[k]
           userId == IF commission.type = "SELLER" THEN commission.seller
                     ELSE commission.deliveryBoy
           flipped == [L EXCEPT !.commissions[k].status = "Cancelled"]
       IN IF commission.order # orderId \/ commission.status # "Paid"
            THEN reverseFromUntil(L, k + 1, orderId, failAt)
          ELSE IF failAt = 1 THEN [L |-> L, threw |-> TRUE]
          ELSE IF userId = NoValue
            THEN reverseFromUntil(flipped, k + 1, orderId, failAt - 1)
          ELSE IF failAt = 2 THEN [L |-> flipped, threw |-> TRUE]
          ELSE reverseFromUntil(reverseOne(L, k, orderId), k + 1, orderId, failAt - 2)

\* reverseCommissions with its session: the early return of lines 469-475,
\* the commit of line 501, the abort of line 508 (the writes of the
\* transaction are dropped) and the endSession of the finally block.
\* Result is [L, success, session], session being the calls made on the
\* session after startSession.
reverseCommissionsUntil_NoAbort(L, orderId, failAt) ==
  LET r == reverseFromUntil(L, 1, orderId, failAt)
  IN IF CommissionsOfOrder(L.commissions, orderId) = {}
       THEN [L |-> L, success |-> TRUE,
             session |-> <<"startTransaction", "endSession">>]
     ELSE IF r.threw
       THEN [L |-> r.L, success |-> FALSE,
             session |-> <<"startTransaction", "abortTransaction", "endSession">>]
       ELSE [L |-> r.L, success |-> TRUE,
             session |-> <<"startTransaction", "commitTransaction", "endSession">>]

reverseCommissionsUntil(L, orderId, failAt) ==
  LET r == reverseFromUntil(L, 1, orderId, failAt)
  IN IF CommissionsOfOrder(L.commissions, orderId) = {}
       THEN [L |-> L, success |-> TRUE,
             session |-> <<"startTransaction", "endSession">>]
     ELSE IF r.threw
       THEN [L |-> L, success |-> FALSE,
             session |-> <<"startTransaction", "abortTransaction", "endSession">>]
       ELSE [L |-> r.L, success |-> TRUE,
             session |-> <<"startTransaction", "commitTransaction", "endSession">>]

\* distributeCommissions with its session and its failAt-th write
\* (Commission.create, creditWallet) rejected: every throw inside the try
\* reaches the abort of line 391. Result is [L, success, session].
distributeCommissionsUntil(L, orderId, orderStatus, st, failAt) ==
  LET order == OrderDoc[orderId]
      existingDeliveryComm ==
        {k \in CommissionsOfOrder(L.commissions, orderId) :
           L.commissions[k].type = "DELIVERY_BOY"}
      writes == order.deliveryBoy # NoValue /\ existingDeliveryComm = {}
  IN IF orderStatus # "Delivered" \/ (writes /\ failAt <= 2)
       THEN [L |-> L, success |-> FALSE,
             session |-> <<"startTransaction", "abortTransaction", "endSession">>]
       ELSE [L |-> distributeCommissions(L, orderId, orderStatus, st).L,
             success |-> TRUE,
             session |-> <<"startTransaction", "commitTransaction", "endSession">>]

(* ---------------------------------------------------------------------- *)
(* State                                                                  *)
(* ---------------------------------------------------------------------- *)
VARIABLES
  status,        \* Order.status of every order
  inventory,     \* Inventory documents, by product
  sellers,       \* the Seller documents that exist
  settings,      \* the AppSettings document
  commissions,   \* the Commission collection, in insertion order
  balance,       \* Seller.balance and the delivery agents' wallet balance
  walletAmount,  \* Customer.walletAmount
  walletTxns,    \* the WalletTransaction collection, in insertion order
  clock,         \* Date.now()
  settleRuns,    \* history: createPendingCommissions runs in sequence on an
                 \* order, the first on no commission record (2: twice or
                 \* more); 0 again once another ledger operation ran on it
  preReserve,    \* history: reservedStock of a product just before the order's
                 \* reservation; -2 once the order released it with no other
                 \* write of the product in between; -1 otherwise
  validation,    \* the validator driven on its own: current status, the
                 \* inputs of the last call and its result
  calc,          \* the calculators driven on their own: the inputs of a call
                 \* and its result
  tasks          \* invocations in flight, when operations interleave

vars == <<status, inventory, sellers, settings, commissions, balance, walletAmount,
          walletTxns, clock, settleRuns, preReserve, validation, calc, tasks>>

Ledger == [commissions |-> commissions, balance |-> balance, walletTxns |-> walletTxns]

SetLedger(L) ==
  /\ commissions' = L.commissions
  /\ balance' = L.balance
  /\ walletTxns' = L.walletTxns

WithinBounds(L) ==
  /\ Len(L.commissions) <= MaxCommissions
  /\ Len(L.walletTxns) <= MaxTxns

ProductsOf(orderId) ==
  {OrderItem[i].product : i \in SeqToSet(OrderDoc[orderId].items)}

NoValidation == [current |-> "Received", from |-> NoValue, requested |-> NoValue,
                 result |-> [valid |-> TRUE]]

NoCalc == [op |-> NoValue]

NoTasks == <<>>

\* The configurations the settlement is followed under: every seller exists
\* and delivery is paid by distance, or seller sB is gone and no settings
\* document exists
Configurations ==
  { [sellers |-> SellerIds, settings |-> CHOOSE c \in SettingsChoices : c.present],
    [sellers |-> {"sA"}, settings |-> CHOOSE c \in SettingsChoices : ~c.present] }

\* No settlement has run yet
LedgerEmpty ==
  /\ commissions = <<>>
  /\ balance = [u \in Payees |-> 0]
  /\ walletAmount = [c \in CustomerIds |-> 9000000]
  /\ walletTxns = <<>>
  /\ clock = 0
  /\ settleRuns = [o \in Orders |-> 0]

\* Inventory documents before any order of the model is processed
StartInventory ==
  { [p \in dom |-> IF p = "p1" THEN p1
                   ELSE [currentStock |-> 5, reservedStock |-> 0, availableStock |-> 5]] :
      dom \in {Products, {"p1"}},
      p1 \in {[currentStock |-> 2, reservedStock |-> 1, availableStock |-> 1],
              [currentStock |-> 5, reservedStock |-> 0, availableStock |-> 5]} }

\* Orders as placed: nothing reserved, nothing settled. The sellers of the
\* items are gone, so that the Delivered hook skips every item and this
\* specification follows the inventory alone (Spec follows the settlement).
InitOrders ==
  /\ status = [o \in Orders |-> "Received"]
  /\ inventory \in StartInventory
  /\ sellers = {}
  /\ settings \in SettingsChoices
  /\ LedgerEmpty
  /\ preReserve = [o \in Orders |-> [p \in Products |-> -1]]
  /\ calc = NoCalc
  /\ tasks = NoTasks
  /\ validation = NoValidation

\* Orders on their way to the customer: both were reserved on entering
\* Processed and have reached "Out for Delivery"
Init ==
  /\ status = [o \in Orders |-> "Out for Delivery"]
  /\ inventory = [p \in Products |->
                    [currentStock |-> 5,
                     reservedStock |-> IF p = "p1" THEN 4 ELSE 1,
                     availableStock |-> IF p = "p1" THEN 1 ELSE 4]]
  /\ \E c \in Configurations : sellers = c.sellers /\ settings = c.settings
  /\ LedgerEmpty
  /\ preReserve = [o \in Orders |-> [p \in Products |-> -1]]
  /\ calc = NoCalc
  /\ tasks = NoTasks
  /\ validation = NoValidation

(* ---------------------------------------------------------------------- *)
(* processOrderStatusTransition                                           *)
(* ---------------------------------------------------------------------- *)
statusEffects_CancelAlwaysRestores(inv, L, orderId, newStatus, previousStatus, existing, now) ==
  LET items == OrderDoc[orderId].items
  IN CASE newStatus = "Cancelled" ->
            [inventory |-> restoreInventory(inv, items), L |-> L, threw |-> FALSE]
       [] newStatus = "Processed" ->
            [inventory |-> reserveInventory(inv, items), L |-> L, threw |-> FALSE]
       [] newStatus = "Delivered" ->
            LET r == createCommissions(L, items, existing, now)
            IN [inventory |-> inv, L |-> r.L, threw |-> r.threw]
       [] OTHER -> [inventory |-> inv, L |-> L, threw |-> FALSE]

\* The switch on newStatus. Result is [inventory, L, threw].
statusEffects(inv, L, orderId, newStatus, previousStatus, existing, now) ==
  LET items == OrderDoc[orderId].items
  IN CASE newStatus = "Cancelled" ->
            [inventory |-> IF previousStatus \in {"Processed", "Shipped"}
                             THEN restoreInventory(inv, items) ELSE inv,
             L |-> L, threw |-> FALSE]
       [] newStatus = "Processed" ->
            [inventory |-> reserveInventory(inv, items), L |-> L, threw |-> FALSE]
       [] newStatus = "Delivered" ->
            LET r == createCommissions(L, items, existing, now)
            IN [inventory |-> inv, L |-> r.L, threw |-> r.threw]
       [] OTHER -> [inventory |-> inv, L |-> L, threw |-> FALSE]

\* history of the reservations: what the order's reservation started from,
\* dropped for every order when another operation writes the product
TrackReserve(orderId, newStatus, previousStatus) ==
  LET writes == newStatus = "Processed"
                \/ (newStatus = "Cancelled" /\ previousStatus \in {"Processed", "Shipped"})
      touched == IF writes THEN ProductsOf(orderId) \cap DOMAIN inventory ELSE {}
  IN preReserve' =
       [o \in Orders |-> [p \in Products |->
          IF p \notin touched THEN preReserve[o][p]
          ELSE IF o = orderId /\ newStatus = "Processed" /\ preReserve[o][p] < 0
            THEN inventory[p].reservedStock
          ELSE IF o = orderId /\ newStatus = "Cancelled" /\ preReserve[o][p] >= 0
            THEN -2
            ELSE -1]]

\* history of the settlement runs: the Delivered hook ends a sequence
TrackSettle(orderId, newStatus) ==
  settleRuns' = IF newStatus = "Delivered"
                  THEN [settleRuns EXCEPT ![orderId] = 0]
                  ELSE settleRuns

EffectsWithinBounds(r) ==
  /\ WithinBounds(r.L)
  /\ \A p \in DOMAIN r.inventory : r.inventory[p].reservedStock <= MaxReserved

\* Date.now() values a call can read: the clock has stood still since the
\* last call or has moved on
Nows(newStatus) ==
  IF newStatus = "Delivered" THEN {t \in {clock, clock + 1} : t <= MaxClock}
  ELSE {clock}

\* The exported function called on its own: the caller passes the order's
\* status as previousStatus; the function writes no status
ProcessOrderStatusTransition(orderId, newStatus, now) ==
  LET r == statusEffects(inventory, Ledger, orderId, newStatus, status[orderId],
                         sellers, now)
  IN /\ EffectsWithinBounds(r)
     /\ inventory' = r.inventory
     /\ SetLedger(r.L)
     /\ clock' = now
     /\ TrackReserve(orderId, newStatus, status[orderId])
     /\ TrackSettle(orderId, newStatus)
     /\ UNCHANGED <<status, sellers, settings, walletAmount, validation, calc, tasks>>

\* The status update of the order subsystem: validate, run the side effects,
\* then persist the new status (not persisted when an effect throws)
ApplyTransition(orderId, requested, now) ==
  LET v == validateStatusTransition(status[orderId], requested)
      r == statusEffects(inventory, Ledger, orderId, requested, status[orderId],
                         sellers, now)
  IN IF ~v.valid
       THEN UNCHANGED vars
       ELSE /\ EffectsWithinBounds(r)
            /\ inventory' = r.inventory
            /\ SetLedger(r.L)
            /\ status' = IF r.threw THEN status
                         ELSE [status EXCEPT ![orderId] = requested]
            /\ clock' = now
            /\ TrackReserve(orderId, requested, status[orderId])
            /\ TrackSettle(orderId, requested)
            /\ UNCHANGED <<sellers, settings, walletAmount, validation, calc, tasks>>

(* ---------------------------------------------------------------------- *)
(* Settlement, reversal and the admin wallet operations                   *)
(* ---------------------------------------------------------------------- *)
CreatePendingCommissions(orderId) ==
  LET L == createPendingCommissions(Ledger, orderId, sellers, settings)
  IN /\ WithinBounds(L)
     /\ SetLedger(L)
     /\ settleRuns' =
          [settleRuns EXCEPT ![orderId] =
             IF @ >= 1 THEN 2
             ELSE IF CommissionsOfOrder(commissions, orderId) = {} THEN 1 ELSE 0]
     /\ UNCHANGED <<status, inventory, sellers, settings, walletAmount, clock,
                    preReserve, validation, calc, tasks>>

DistributeCommissions(orderId) ==
  LET r == distributeCommissions(Ledger, orderId, status[orderId], settings)
  IN /\ WithinBounds(r.L)
     /\ SetLedger(r.L)
     /\ settleRuns' = [settleRuns EXCEPT ![orderId] = 0]
     /\ UNCHANGED <<status, inventory, sellers, settings, walletAmount, clock,
                    preReserve, validation, calc, tasks>>

ReverseCommissions(orderId) ==
  LET L == reverseCommissions(Ledger, orderId)
  IN /\ WithinBounds(L)
     /\ SetLedger(L)
     /\ settleRuns' = [settleRuns EXCEPT ![orderId] = 0]
     /\ UNCHANGED <<status, inventory, sellers, settings, walletAmount, clock,
                    preReserve, validation, calc, tasks>>

\* Amounts the admin requests pass
Amounts == {0, 9000000}

\* adminWalletController.processWithdrawal
withdrawalAccepted(sellerId, amount) ==
  /\ amount > 0
  /\ sellerId \in sellers
  /\ balance[sellerId] >= amount

ProcessWithdrawal(sellerId, amount) ==
  IF withdrawalAccepted(sellerId, amount)
    THEN /\ balance' = [balance EXCEPT ![sellerId] = @ - amount]
         /\ commissions' =
              [k \in 1..Len(commissions) |->
                 IF commissions[k].seller = sellerId /\ commissions[k].status = "Pending"
                   THEN [commissions[k] EXCEPT !.status = "Paid"]
                   ELSE commissions[k]]
         /\ UNCHANGED <<status, inventory, sellers, settings, walletAmount, walletTxns,
                        clock, settleRuns, preReserve, validation, calc, tasks>>
    ELSE UNCHANGED vars

\* adminWalletController.processFundTransfer
Accounts == {<<"seller", s>> : s \in SellerIds} \cup {<<"customer", c>> : c \in CustomerIds}

\* Accounts the admin requests name
TransferAccounts == {<<"seller", "sA">>, <<"customer", "c1">>}

accountExists(acct) == acct[1] = "customer" \/ acct[2] \in sellers

accountBalance(acct) ==
  IF acct[1] = "seller" THEN balance[acct[2]] ELSE walletAmount[acct[2]]

transferAccepted(from, to, amount) ==
  /\ amount > 0
  /\ accountExists(from)
  /\ accountBalance(from) >= amount
  /\ accountExists(to)

\* balances after both documents are saved; fromAccount and toAccount are two
\* copies of one document when from = to, and `keep` is the save that lands last
transferBalances(bal, from, to, amount, keep) ==
  IF from = to
    THEN [bal EXCEPT ![from] = IF keep = "from" THEN @ - amount ELSE @ + amount]
    ELSE [bal EXCEPT ![from] = @ - amount, ![to] = @ + amount]

ProcessFundTransfer(from, to, amount, keep) ==
  LET all == [a \in Accounts |-> accountBalance(a)]
      after == transferBalances(all, from, to, amount, keep)
  IN IF transferAccepted(from, to, amount)
       THEN /\ \A a \in Accounts : after[a] <= MaxBalance * 10000
            /\ balance' = [u \in Payees |->
                             IF u \in SellerIds THEN after[<<"seller", u>>] ELSE balance[u]]
            /\ walletAmount' = [c \in CustomerIds |-> after[<<"customer", c>>]]
            /\ UNCHANGED <<status, inventory, sellers, settings, commissions, walletTxns,
                           clock, settleRuns, preReserve, validation, calc, tasks>>
       ELSE UNCHANGED vars

\* The settlement engine: orders are delivered, settled through every call
\* path and reversed, and the admin withdraws and transfers money
Next ==
  \/ \E o \in Orders, ns \in StatusInputs : \E now \in Nows(ns) :
       ApplyTransition(o, ns, now)
  \/ \E o \in Orders : CreatePendingCommissions(o)
  \/ \E o \in Orders : DistributeCommissions(o)
  \/ \E o \in Orders : ReverseCommissions(o)
  \/ \E s \in SellerIds, a \in Amounts : ProcessWithdrawal(s, a)
  \/ \E from \in TransferAccounts, to \in TransferAccounts, a \in Amounts,
        keep \in {"from", "to"} :
       ProcessFundTransfer(from, to, a, keep)

Spec == Init /\ [][Next]_vars

\* The order pipeline: status updates through the order subsystem and the
\* exported function called on its own
NextOrders ==
  \/ \E o \in Orders, ns \in StatusInputs : \E now \in Nows(ns) :
       ProcessOrderStatusTransition(o, ns, now)
  \/ \E o \in Orders, ns \in StatusInputs : \E now \in Nows(ns) :
       ApplyTransition(o, ns, now)

SpecOrders == InitOrders /\ [][NextOrders]_vars

(* ---------------------------------------------------------------------- *)
(* The validator on its own: a status that moves by accepted requests     *)
(* ---------------------------------------------------------------------- *)
InitValidate ==
  /\ status = [o \in Orders |-> "Received"]
  /\ inventory = [p \in Products |->
                    [currentStock |-> 5, reservedStock |-> 0, availableStock |-> 5]]
  /\ sellers = SellerIds
  /\ settings = CHOOSE c \in SettingsChoices : ~c.present
  /\ LedgerEmpty
  /\ preReserve = [o \in Orders |-> [p \in Products |-> -1]]
  /\ calc = NoCalc
  /\ tasks = NoTasks
  /\ \E cur \in StatusInputs : validation = [NoValidation EXCEPT !.current = cur]

Validate(requested) ==
  LET v == validateStatusTransition(validation.current, requested)
  IN /\ validation' = [current |-> IF v.valid THEN requested ELSE validation.current,
                       from |-> validation.current,
                       requested |-> requested,
                       result |-> v]
     /\ UNCHANGED <<status, inventory, sellers, settings, commissions, balance,
                    walletAmount, walletTxns, clock, settleRuns, preReserve, calc, tasks>>

NextValidate == \E requested \in StatusInputs : Validate(requested)

SpecValidate == InitValidate /\ [][NextValidate]_vars

(* ---------------------------------------------------------------------- *)
(* Paid orders on their way: settled at payment, then shipped, delivered  *)
(* or cancelled                                                           *)
(* ---------------------------------------------------------------------- *)
\* Both orders were reserved on entering Processed
InitProcessed ==
  /\ status = [o \in Orders |-> "Processed"]
  /\ inventory = [p \in Products |->
                    [currentStock |-> 5,
                     reservedStock |-> IF p = "p1" THEN 4 ELSE 1,
                     availableStock |-> IF p = "p1" THEN 1 ELSE 4]]
  /\ \E c \in Configurations : sellers = c.sellers /\ settings = c.settings
  /\ LedgerEmpty
  /\ preReserve = [o \in Orders |-> [p \in Products |-> -1]]
  /\ validation = NoValidation
  /\ calc = NoCalc
  /\ tasks = NoTasks

NextPaid ==
  \/ \E o \in Orders : CreatePendingCommissions(o)
  \/ \E o \in Orders, ns \in StatusInputs : \E now \in Nows(ns) :
       ApplyTransition(o, ns, now)

SpecPaid == InitProcessed /\ [][NextPaid]_vars

(* ---------------------------------------------------------------------- *)
(* Settlement while Seller documents are missing and appear later         *)
(* ---------------------------------------------------------------------- *)
\* Orders out for delivery; one of the two sellers has no document
InitMissingSeller ==
  /\ status = [o \in Orders |-> "Out for Delivery"]
  /\ inventory = [p \in Products |->
                    [currentStock |-> 5,
                     reservedStock |-> IF p = "p1" THEN 4 ELSE 1,
                     availableStock |-> IF p = "p1" THEN 1 ELSE 4]]
  /\ sellers \in {{"sA"}, {"sB"}}
  /\ settings \in SettingsChoices
  /\ LedgerEmpty
  /\ preReserve = [o \in Orders |-> [p \in Products |-> -1]]
  /\ validation = NoValidation
  /\ calc = NoCalc
  /\ tasks = NoTasks

\* A Seller document that Seller.findById did not find comes to exist
SellerAppears(sellerId) ==
  /\ sellerId \notin sellers
  /\ sellers' = sellers \cup {sellerId}
  /\ UNCHANGED <<status, inventory, settings, commissions, balance, walletAmount,
                 walletTxns, clock, settleRuns, preReserve, validation, calc, tasks>>

NextMissingSeller ==
  \/ \E o \in Orders : CreatePendingCommissions(o)
  \/ \E o \in Orders, ns \in StatusInputs : \E now \in Nows(ns) :
       ApplyTransition(o, ns, now)
  \/ \E s \in SellerIds : SellerAppears(s)

SpecMissingSeller == InitMissingSeller /\ [][NextMissingSeller]_vars

(* ---------------------------------------------------------------------- *)
(* Delivered orders settled by the two settlement operations in either    *)
(* order                                                                  *)
(* ---------------------------------------------------------------------- *)
\* Orders out for delivery whose sellers have no document yet
InitUnsettled ==
  /\ status = [o \in Orders |-> "Out for Delivery"]
  /\ inventory = [p \in Products |->
                    [currentStock |-> 5,
                     reservedStock |-> IF p = "p1" THEN 4 ELSE 1,
                     availableStock |-> IF p = "p1" THEN 1 ELSE 4]]
  /\ sellers \in {{}, {"sA"}}
  /\ settings \in SettingsChoices
  /\ LedgerEmpty
  /\ preReserve = [o \in Orders |-> [p \in Products |-> -1]]
  /\ validation = NoValidation
  /\ calc = NoCalc
  /\ tasks = NoTasks

NextEitherOrder ==
  \/ \E o \in Orders : CreatePendingCommissions(o)
  \/ \E o \in Orders : DistributeCommissions(o)
  \/ \E o \in Orders : \E now \in Nows("Delivered") : ApplyTransition(o, "Delivered", now)
  \/ \E s \in SellerIds : SellerAppears(s)

SpecEitherOrder == InitUnsettled /\ [][NextEitherOrder]_vars

(* ---------------------------------------------------------------------- *)
(* Settlement with rejected writes                                        *)
(* ---------------------------------------------------------------------- *)
\* The writes of one settlement that can be the rejected one
FaultPoints == 1..4

\* createPendingCommissions with its failAt-th write rejected (it completes
\* when it makes fewer writes)
CreatePendingCommissionsUntil(orderId, failAt) ==
  LET r == createPendingCommissionsUntil(Ledger, orderId, sellers, settings, failAt)
  IN /\ WithinBounds(r.L)
     /\ SetLedger(r.L)
     /\ settleRuns' = [settleRuns EXCEPT ![orderId] = 0]
     /\ UNCHANGED <<status, inventory, sellers, settings, walletAmount, clock,
                    preReserve, validation, calc, tasks>>

\* the statuses of line 24, for which clearOrderCache is called
CacheClearingStatuses == {"Delivered", "Cancelled", "Returned", "Failed", "Rejected"}

\* How a failure of clearOrderCache surfaces at the call of line 25, which is
\* neither awaited nor guarded: it throws (the function rejects there) or it
\* returns a promise that rejects later (the function goes on)
CacheFailures == {"throws", "rejects"}

\* processOrderStatusTransition with clearOrderCache failing; calc records
\* the call and whether it returned
ProcessOrderStatusTransitionCacheFails(orderId, newStatus, now, failure) ==
  LET r == statusEffects(inventory, Ledger, orderId, newStatus, status[orderId],
                         sellers, now)
  IN /\ newStatus \in CacheClearingStatuses
     /\ calc' = [op |-> "processOrderStatusTransition", order |-> orderId,
                 newStatus |-> newStatus, failure |-> failure,
                 returned |-> (failure # "throws" /\ ~r.threw)]
     /\ IF failure = "throws"
          THEN UNCHANGED <<inventory, commissions, balance, walletTxns, clock,
                           preReserve, settleRuns>>
          ELSE /\ EffectsWithinBounds(r)
               /\ inventory' = r.inventory
               /\ SetLedger(r.L)
               /\ clock' = now
               /\ TrackReserve(orderId, newStatus, status[orderId])
               /\ TrackSettle(orderId, newStatus)
     /\ UNCHANGED <<status, sellers, settings, walletAmount, validation, tasks>>

\* Settlements that fail partway, the Delivered hook called again for an
\* order (its Credit insert is rejected when the reference exists), and
\* transitions whose cache invalidation fails
NextFaults ==
  \/ \E o \in Orders, f \in FaultPoints : CreatePendingCommissionsUntil(o, f)
  \/ \E o \in Orders : \E now \in Nows("Delivered") :
       ProcessOrderStatusTransition(o, "Delivered", now)
  \/ \E o \in Orders, ns \in CacheClearingStatuses, f \in CacheFailures :
       \E now \in Nows(ns) : ProcessOrderStatusTransitionCacheFails(o, ns, now, f)

SpecFaults == Init /\ [][NextFaults]_vars

(* ---------------------------------------------------------------------- *)
\* reverseCommissions with its failAt-th write rejected (it completes when it
\* makes fewer writes); calc records the call, its outcome and its session
ReverseCommissionsUntil(orderId, failAt) ==
  LET r == reverseCommissionsUntil(Ledger, orderId, failAt)
  IN /\ WithinBounds(r.L)
     /\ SetLedger(r.L)
     /\ calc' = [op |-> "reverseCommissions", order |-> orderId, failAt |-> failAt,
                 success |-> r.success, session |-> r.session]
     /\ settleRuns' = [settleRuns EXCEPT ![orderId] = 0]
     /\ UNCHANGED <<status, inventory, sellers, settings, walletAmount, clock,
                    preReserve, validation, tasks>>

DistributeCommissionsUntil(orderId, failAt) ==
  LET r == distributeCommissionsUntil(Ledger, orderId, status[orderId], settings, failAt)
  IN /\ WithinBounds(r.L)
     /\ SetLedger(r.L)
     /\ calc' = [op |-> "distributeCommissions", order |-> orderId, failAt |-> failAt,
                 success |-> r.success, session |-> r.session]
     /\ settleRuns' = [settleRuns EXCEPT ![orderId] = 0]
     /\ UNCHANGED <<status, inventory, sellers, settings, walletAmount, clock,
                    preReserve, validation, tasks>>

\* Orders are settled and delivered; reversals and distributions run with a
\* write that can be rejected
NextLedgerFaults ==
  \/ \E o \in Orders : CreatePendingCommissions(o)
  \/ \E o \in Orders : \E now \in Nows("Delivered") : ApplyTransition(o, "Delivered", now)
  \/ \E o \in Orders, f \in FaultPoints : ReverseCommissionsUntil(o, f)
  \/ \E o \in Orders, f \in FaultPoints : DistributeCommissionsUntil(o, f)

SpecLedgerFaults == Init /\ [][NextLedgerFaults]_vars

(* Invocations that interleave: each awaited read or write is a step      *)
(* A task is [op, order, item, phase, read]: item is the index of the     *)
(* line item the loop is at, read the document a findOne returned.        *)
(* ---------------------------------------------------------------------- *)
\* Inventory documents the interleaved reservations start from
RaceInventory ==
  [p \in Products |->
     [currentStock |-> 10, reservedStock |-> IF p = "p1" THEN 6 ELSE 3,
      availableStock |-> IF p = "p1" THEN 4 ELSE 7]]

InitRace ==
  /\ status = [o \in Orders |-> "Pending"]
  /\ inventory = RaceInventory
  /\ \E c \in Configurations : sellers = c.sellers /\ settings = c.settings
  /\ LedgerEmpty
  /\ preReserve = [o \in Orders |-> [p \in Products |-> -1]]
  /\ validation = NoValidation
  /\ calc = NoCalc
  /\ tasks = NoTasks

TaskItem(t) == OrderItem[OrderDoc[tasks[t].order].items[tasks[t].item]]

\* the task moves on to the next line item, or has returned
NextItem(t, phase) ==
  [tasks EXCEPT ![t].item = @ + 1,
                ![t].phase = IF tasks[t].item + 1 > Len(OrderDoc[tasks[t].order].items)
                               THEN "done" ELSE phase]

\* createPendingCommissions is called (payment of the order is confirmed)
StartSettle(orderId) ==
  /\ Len(tasks) < MaxTasks
  /\ tasks' = Append(tasks, [op |-> "settle", order |-> orderId, item |-> 1,
                             phase |-> "check", read |-> NoValue])
  /\ UNCHANGED <<status, inventory, sellers, settings, commissions, balance,
                 walletAmount, walletTxns, clock, settleRuns, preReserve, validation,
                 calc>>

\* lines 186-190: Commission.find and the early return
SettleCheck(t) ==
  /\ tasks[t].op = "settle" /\ tasks[t].phase = "check"
  /\ tasks' = [tasks EXCEPT ![t].phase =
                 IF commissionsAlreadyExist(Ledger, tasks[t].order)
                   THEN "done" ELSE "items"]
  /\ UNCHANGED <<status, inventory, sellers, settings, commissions, balance,
                 walletAmount, walletTxns, clock, settleRuns, preReserve, validation,
                 calc>>

\* one iteration of the loop of lines 196-288
SettleNextItem(t) ==
  LET L == settleItem(Ledger, TaskItem(t), sellers, settings)
  IN /\ tasks[t].op = "settle" /\ tasks[t].phase = "items"
     /\ WithinBounds(L)
     /\ SetLedger(L)
     /\ tasks' = NextItem(t, "items")
     /\ UNCHANGED <<status, inventory, sellers, settings, walletAmount, clock,
                    settleRuns, preReserve, validation, calc>>

NextSettleRace ==
  \/ \E o \in Orders : StartSettle(o)
  \/ \E t \in 1..Len(tasks) : SettleCheck(t)
  \/ \E t \in 1..Len(tasks) : SettleNextItem(t)

SpecSettleRace == InitRace /\ [][NextSettleRace]_vars

\* reserveInventory or restoreInventory is called for an order; the orders of
\* the inventory tasks in flight differ
StartInventoryTask(op, orderId) ==
  /\ Len(tasks) < MaxTasks
  /\ \A t \in 1..Len(tasks) : tasks[t].order # orderId
  /\ tasks' = Append(tasks, [op |-> op, order |-> orderId, item |-> 1,
                             phase |-> "read", read |-> NoValue])
  /\ UNCHANGED <<status, inventory, sellers, settings, commissions, balance,
                 walletAmount, walletTxns, clock, settleRuns, preReserve, validation,
                 calc>>

\* Inventory.findOne({ product: item.product })
ReadInventory(t) ==
  /\ tasks[t].op \in {"reserve", "restore"} /\ tasks[t].phase = "read"
  /\ tasks' = IF TaskItem(t).product \in DOMAIN inventory
                THEN [tasks EXCEPT ![t].phase = "save",
                                   ![t].read = inventory[TaskItem(t).product]]
                ELSE NextItem(t, "read")
  /\ UNCHANGED <<status, inventory, sellers, settings, commissions, balance,
                 walletAmount, walletTxns, clock, settleRuns, preReserve, validation,
                 calc>>

\* the fields are computed on the document as it was read; inventory.save()
\* writes them
SaveInventory(t) ==
  LET product == TaskItem(t).product
      asRead == [inventory EXCEPT ![product] = tasks[t].read]
      saved == IF tasks[t].op = "reserve" THEN reserveItem(asRead, TaskItem(t))
               ELSE restoreItem(asRead, TaskItem(t))
  IN /\ tasks[t].op \in {"reserve", "restore"} /\ tasks[t].phase = "save"
     /\ inventory' = [inventory EXCEPT ![product] = saved[product]]
     /\ tasks' = NextItem(t, "read")
     /\ UNCHANGED <<status, sellers, settings, commissions, balance, walletAmount,
                    walletTxns, clock, settleRuns, preReserve, validation, calc>>

NextInventoryRace ==
  \/ \E o \in Orders, op \in {"reserve", "restore"} : StartInventoryTask(op, o)
  \/ \E t \in 1..Len(tasks) : ReadInventory(t)
  \/ \E t \in 1..Len(tasks) : SaveInventory(t)

SpecInventoryRace == InitRace /\ [][NextInventoryRace]_vars

(* ---------------------------------------------------------------------- *)
(* The calculators on their own: rate resolution, the delivery leg and    *)
(* the commission summary, applied to inputs drawn from small sets        *)
(* ---------------------------------------------------------------------- *)
\* commissionRate values of a source (-1: unset, or the document is missing)
RateChoices == {-1, 0, 5, 20}

RateSettings ==
  { [present |-> FALSE, globalCommissionRate |-> -1, isDistanceBased |-> FALSE,
     deliveryBoyKmRate |-> 0] } \cup
  { [present |-> TRUE, globalCommissionRate |-> g, isDistanceBased |-> FALSE,
     deliveryBoyKmRate |-> 0] : g \in {-1, 0, 15} }

RateCalls ==
  { [op |-> "resolveRate", subSubCat |-> a, subCat |-> b, cat |-> c, seller |-> d,
     settings |-> st, done |-> FALSE, result |-> 0] :
      a \in RateChoices, b \in RateChoices, c \in RateChoices, d \in RateChoices,
      st \in RateSettings }

DeliverySettings ==
  { [present |-> p, globalCommissionRate |-> -1, isDistanceBased |-> d,
     deliveryBoyKmRate |-> r] : p \in BOOLEAN, d \in BOOLEAN, r \in {0, 8} }

\* Orders with a delivery agent: subtotal 1500.00 or 10.01, distance 0 or 12.5 km
DeliveryOrders ==
  { [items |-> <<>>, orderNumber |-> "ORD9", subtotal |-> sub, deliveryBoy |-> b,
     deliveryDistanceKm |-> d] :
      sub \in {15000000, 100100}, b \in DeliveryIds, d \in {0, 125000} }

DeliveryCalls ==
  { [op |-> "deliveryRecord", settings |-> st, order |-> o, done |-> FALSE,
     result |-> NoValue] : st \in DeliverySettings, o \in DeliveryOrders }

\* Commission records a summary is taken over
SummaryRecords ==
  { [seller |-> "sA", deliveryBoy |-> NoValue, orderAmount |-> 10000000,
     commissionAmount |-> 1000000, status |-> st] :
      st \in {"Pending", "Paid", "Cancelled"} } \cup
  { [seller |-> NoValue, deliveryBoy |-> "d1", orderAmount |-> 125000,
     commissionAmount |-> 1000000, status |-> st] :
      st \in {"Pending", "Paid", "Cancelled"} } \cup
  { [seller |-> "sB", deliveryBoy |-> NoValue, orderAmount |-> 5000000,
     commissionAmount |-> 500000, status |-> "Paid"] }

SummaryCalls ==
  { [op |-> "summary", records |-> r, userId |-> NoValue, userType |-> NoValue,
     done |-> FALSE, result |-> [total |-> 0, paid |-> 0, pending |-> 0, count |-> 0]] :
      r \in UNION {[1..n -> SummaryRecords] : n \in 0..MaxCommissions} }

\* Line items a settlement is computed for: totals 3.33, 10.05 and 1000.00
SettleItemChoices ==
  { [id |-> "i1", order |-> "o1", seller |-> s, product |-> "p1", quantity |-> 1,
     total |-> t] : s \in SellerIds, t \in {33300, 100500, 10000000} }

SettleCalls ==
  { [op |-> "settleItem", item |-> it, settings |-> st, done |-> FALSE,
     result |-> NoValue] : it \in SettleItemChoices, st \in RateSettings }

\* a ledger with no record, no entry and zero balances
EmptyLedger ==
  [commissions |-> <<>>, balance |-> [u \in Payees |-> 0], walletTxns |-> <<>>]

\* Seller.commissionRate by seller: set like Seller.commission, or unset
SellerCommissionRates == {SellerCommission, [s \in SellerIds |-> -1]}

\* Orders whose commissions are calculated and settled
OrderCalls ==
  { [op |-> "orderCommissions", order |-> o, existing |-> e, commissionRate |-> cr,
     settings |-> st, done |-> FALSE, calculated |-> NoValue, persisted |-> <<>>] :
      o \in Orders, e \in {SellerIds, {"sA"}}, cr \in SellerCommissionRates,
      st \in RateSettings }

InitCalc ==
  /\ status = [o \in Orders |-> "Received"]
  /\ inventory = [p \in Products |->
                    [currentStock |-> 5, reservedStock |-> 0, availableStock |-> 5]]
  /\ sellers = SellerIds
  /\ settings = CHOOSE c \in SettingsChoices : ~c.present
  /\ LedgerEmpty
  /\ preReserve = [o \in Orders |-> [p \in Products |-> -1]]
  /\ validation = NoValidation
  /\ tasks = NoTasks
  /\ \/ calc \in RateCalls
     \/ calc \in DeliveryCalls
     \/ calc \in SummaryCalls
     \/ calc \in SettleCalls
     \/ calc \in OrderCalls

CalcUnchanged ==
  UNCHANGED <<status, inventory, sellers, settings, commissions, balance, walletAmount,
              walletTxns, clock, settleRuns, preReserve, validation, tasks>>

\* the rate chain of createPendingCommissions on the five sources
ResolveRate ==
  /\ calc.op = "resolveRate" /\ ~calc.done
  /\ calc' = [calc EXCEPT !.done = TRUE,
                          !.result = resolveRate(calc.subSubCat, calc.subCat, calc.cat,
                                                 calc.seller, calc.settings)]
  /\ CalcUnchanged

\* the record distributeCommissions creates for the delivery leg
DeliveryRecord ==
  /\ calc.op = "deliveryRecord" /\ ~calc.done
  /\ calc' = [calc EXCEPT !.done = TRUE,
                          !.result = deliveryRecord(calc.settings, "o1", calc.order)]
  /\ CalcUnchanged

GetCommissionSummary(userId, userType) ==
  /\ calc.op = "summary" /\ ~calc.done
  /\ calc' = [calc EXCEPT !.done = TRUE, !.userId = userId, !.userType = userType,
                          !.result = getCommissionSummary(calc.records, userId, userType)]
  /\ CalcUnchanged

\* what one iteration of the settlement loop persists for a line item
SettleItem ==
  /\ calc.op = "settleItem" /\ ~calc.done
  /\ calc' = [calc EXCEPT !.done = TRUE,
                          !.result = settleItem(EmptyLedger, calc.item, SellerIds,
                                                calc.settings)]
  /\ CalcUnchanged

\* calculateOrderCommissions for an order, and what createPendingCommissions
\* persists for the same order
OrderCommissions ==
  /\ calc.op = "orderCommissions" /\ ~calc.done
  /\ calc' = [calc EXCEPT
                !.done = TRUE,
                !.calculated = calculateOrderCommissions(calc.order, calc.existing,
                                                         calc.commissionRate, calc.settings),
                !.persisted = createPendingCommissions(EmptyLedger, calc.order,
                                                       calc.existing,
                                                       calc.settings).commissions]
  /\ CalcUnchanged

NextCalc ==
  \/ ResolveRate
  \/ OrderCommissions
  \/ SettleItem
  \/ DeliveryRecord
  \/ \E u \in {"sA", "sB", "d1"}, t \in {"SELLER", "DELIVERY_BOY"} :
       GetCommissionSummary(u, t)

SpecCalc == InitCalc /\ [][NextCalc]_vars

(* ====================================================================== *)
(* Properties                                                             *)
(* ====================================================================== *)
ItemsOf(orderId) == SeqToSet(OrderDoc[orderId].items)

RecordsOfItem(orderId, itemId) ==
  {k \in 1..Len(commissions) :
     commissions[k].order = orderId /\ commissions[k].orderItem = itemId}

DeliveryRecords(orderId) ==
  {k \in 1..Len(commissions) :
     commissions[k].order = orderId /\ commissions[k].type = "DELIVERY_BOY"}

\* Credit entries of an order to a payee
CreditsOf(orderId, userId) ==
  {t \in 1..Len(walletTxns) :
     /\ walletTxns[t].type = "Credit"
     /\ walletTxns[t].reference.order = orderId
     /\ walletTxns[t].payee = userId}

\* The transition table as the specification states it
TablePairs ==
  {<<"Received", "Pending">>, <<"Received", "Cancelled">>, <<"Received", "Rejected">>,
   <<"Pending", "Processed">>, <<"Pending", "Cancelled">>, <<"Pending", "Rejected">>,
   <<"Processed", "Shipped">>, <<"Processed", "Cancelled">>, <<"Processed", "Rejected">>,
   <<"Shipped", "Out for Delivery">>, <<"Shipped", "Cancelled">>, <<"Shipped", "Rejected">>,
   <<"Out for Delivery", "Delivered">>, <<"Out for Delivery", "Cancelled">>,
   <<"Out for Delivery", "Rejected">>,
   <<"Delivered", "Returned">>}

TerminalStatuses == {"Cancelled", "Rejected", "Returned"}

\* A line item is settled exactly once: one commission record and one credit
\* entry for it
SettledOnce(orderId, itemId) ==
  /\ Cardinality(RecordsOfItem(orderId, itemId)) = 1
  /\ \A k \in RecordsOfItem(orderId, itemId) :
       Cardinality({t \in CreditsOf(orderId, commissions[k].seller) :
                      walletTxns[t].reference.token = k}) = 1

\* C1 (as amended): when createPendingCommissions runs on an order a second
\* time in sequence, the second run changes no commission record, balance or
\* wallet transaction, and every line item of the order whose seller exists
\* has exactly one commission record and one wallet credit (an item whose
\* seller is missing is skipped by both runs and has none).
C1_SettleTwiceIdempotent ==
  [][\A o \in Orders :
       (CreatePendingCommissions(o) /\ settleRuns[o] >= 1) =>
         /\ UNCHANGED <<commissions, balance, walletTxns>>
         /\ \A i \in ItemsOf(o) :
              OrderItem[i].seller \in sellers => SettledOnce(o, i)']_vars

\* C1 as stated: after the second run every line item of the order has exactly
\* one commission record and one wallet credit.
C1_AsStated ==
  [][\A o \in Orders :
       (CreatePendingCommissions(o) /\ settleRuns[o] >= 1) =>
         /\ UNCHANGED <<commissions, balance, walletTxns>>
         /\ \A i \in ItemsOf(o) : SettledOnce(o, i)']_vars

\* C1 witness: order o1 was settled twice in sequence and has its records
C1_Witness ==
  /\ settleRuns["o1"] = 2
  /\ \A i \in ItemsOf("o1") : OrderItem[i].seller \in sellers => SettledOnce("o1", i)
  /\ \E i \in ItemsOf("o1") : SettledOnce("o1", i)

\* C2: whatever settlement paths ran, there is at most one commission record
\* per (order, line item), at most one delivery record per order, and a payee
\* has no more credits for an order than commission records.
C2_AtMostOneRecord ==
  \A o \in Orders :
    /\ \A i \in ItemsOf(o) : Cardinality(RecordsOfItem(o, i)) <= 1
    /\ Cardinality(DeliveryRecords(o)) <= 1
    /\ \A u \in Payees :
         Cardinality(CreditsOf(o, u)) <=
           Cardinality({k \in CommissionsOfOrder(commissions, o) :
                          commissions[k].seller = u \/ commissions[k].deliveryBoy = u})

RECURSIVE CompletedSum(_, _, _)
CompletedSum(txns, userId, k) ==
  IF k > Len(txns) THEN 0
  ELSE (IF txns[k].payee = userId /\ txns[k].status = "Completed"
          THEN IF txns[k].type = "Credit" THEN txns[k].amount ELSE 0 - txns[k].amount
          ELSE 0)
       + CompletedSum(txns, userId, k + 1)

\* C3: every payee's balance equals the sum of the payee's Completed wallet
\* transactions, credits minus debits.
C3_Reconciliation ==
  \A u \in Payees : balance[u] = CompletedSum(walletTxns, u, 1)

RECURSIVE AmountSum(_, _, _, _, _)
AmountSum(txns, orderId, userId, kind, k) ==
  IF k > Len(txns) THEN 0
  ELSE (IF txns[k].payee = userId /\ txns[k].reference.order = orderId
           /\ txns[k].reference.kind = kind
          THEN txns[k].amount ELSE 0)
       + AmountSum(txns, orderId, userId, kind, k + 1)

\* the records createPendingCommissions and distributeCommissions made for a payee
PaidRecordsOf(orderId, userId) ==
  {k \in CommissionsOfOrder(commissions, orderId) :
     /\ commissions[k].type # NoValue
     /\ (commissions[k].seller = userId \/ commissions[k].deliveryBoy = userId)}

\* C4: once the commissions of a settled order are reversed, the debits the
\* reversal appended to a payee equal the credits of the settlement to that
\* payee, so the payee's balance is back at its value before the settlement.
C4_ReversalNetsToZero ==
  \A o \in Orders, u \in Payees :
    (/\ PaidRecordsOf(o, u) # {}
     /\ \A k \in PaidRecordsOf(o, u) : commissions[k].status = "Cancelled")
    => AmountSum(walletTxns, o, u, "REV", 1) = AmountSum(walletTxns, o, u, "COMM", 1)

\* C5: the validator accepts a pair (current, requested) exactly when it is a
\* pair of the transition table; every other pair is rejected, also when
\* current is no status of the table.
C5_AcceptsExactlyTable ==
  validation.from # NoValue =>
    (validation.result.valid <=> <<validation.from, validation.requested>> \in TablePairs)

\* C5 witness: a pair of the table was accepted
C5_Witness ==
  /\ validation.from = "Shipped"
  /\ validation.requested = "Out for Delivery"
  /\ validation.result.valid

\* C6: from Cancelled, Rejected and Returned every request is rejected, so a
\* status that moves only by accepted requests never leaves them.
C6_TerminalStays ==
  [][validation.current \in TerminalStatuses =>
       /\ ~validation'.result.valid
       /\ validation'.current = validation.current]_vars

\* C6 witness: a request was made from a terminal status
C6_Witness ==
  /\ validation.from \in TerminalStatuses
  /\ validation.requested \in Statuses
  /\ validation.current = validation.from

\* C7: a rejected pair's result carries exactly the allowed next statuses of
\* current according to the transition table.
C7_RejectListsAllowed ==
  (validation.from # NoValue /\ ~validation.result.valid) =>
    /\ validation.result.message.from = validation.from
    /\ SeqToSet(validation.result.message.validTransitions) =
         {r \in StatusInputs : <<validation.from, r>> \in TablePairs}

\* C7 witness: Shipped to Delivered was rejected with the three allowed statuses
C7_Witness ==
  /\ validation.from = "Shipped"
  /\ validation.requested = "Delivered"
  /\ ~validation.result.valid
  /\ validation.result.message.validTransitions =
       <<"Out for Delivery", "Cancelled", "Rejected">>

\* C8: a call of processOrderStatusTransition whose pair (current status of
\* the order, requested status) is not in the transition table changes no
\* order status, inventory record, commission record, balance or wallet
\* transaction.
C8_InvalidChangesNothing ==
  [][\A o \in Orders, ns \in StatusInputs, now \in {clock, clock + 1} :
       (ProcessOrderStatusTransition(o, ns, now) /\ <<status[o], ns>> \notin TablePairs)
         => UNCHANGED <<status, inventory, commissions, balance, walletTxns>>]_vars

\* C9: availableStock = max(0, currentStock - reservedStock) for every
\* inventory record, after every inventory mutation.
C9_AvailableIsDerived ==
  \A p \in DOMAIN inventory :
    inventory[p].availableStock =
      Max(0, inventory[p].currentStock - inventory[p].reservedStock)

\* C10: when an order reserved on entering Processed is Cancelled from
\* Processed or Shipped and no other operation wrote its products in between,
\* each product's reservedStock is back at its value before the reservation;
\* reservedStock is never below 0.
C10_CancelRestoresReserved ==
  [][/\ \A o \in Orders :
          ((ProcessOrderStatusTransition(o, "Cancelled", clock)
             \/ ApplyTransition(o, "Cancelled", clock))
           /\ status[o] \in {"Processed", "Shipped"})
          => \A p \in ProductsOf(o) \cap DOMAIN inventory :
               preReserve[o][p] >= 0 => inventory'[p].reservedStock = preReserve[o][p]
     /\ \A p \in DOMAIN inventory : inventory'[p].reservedStock >= 0]_vars

\* C10 witness: a Cancelled order whose reservation of p1 was released with
\* nothing in between
C10_Witness ==
  \E o \in Orders :
    /\ status[o] = "Cancelled"
    /\ preReserve[o]["p1"] = -2

\* first positive rate of the four override sources, 0 when none is positive
FirstPositive(rates) ==
  LET pos == {j \in 1..Len(rates) : rates[j] > 0}
  IN IF pos = {} THEN 0
     ELSE rates[CHOOSE j \in pos : \A m \in pos : j <= m]

C12_DeliveredSettlesPaid ==
  [][\A o \in Orders, now \in {clock, clock + 1} :
       (/\ ApplyTransition(o, "Delivered", now)
        /\ status[o] = "Out for Delivery"
        /\ CommissionsOfOrder(commissions, o) = {})
       => \A i \in ItemsOf(o) :
            OrderItem[i].seller \in sellers =>
              LET item == OrderItem[i]
                  amount == (item.total * sellerRateForItem(item, settings)) \div 100
                  records == {k \in 1..Len(commissions') :
                                /\ commissions'[k].order = o
                                /\ commissions'[k].orderItem = i}
              IN /\ Cardinality(records) = 1
                 /\ \A k \in records :
                      /\ commissions'[k].status = "Paid"
                      /\ commissions'[k].commissionAmount = amount
                 /\ \E t \in 1..Len(walletTxns') :
                      /\ walletTxns'[t].type = "Credit"
                      /\ walletTxns'[t].payee = item.seller
                      /\ walletTxns'[t].reference.order = o
                      /\ walletTxns'[t].amount = item.total - amount]_vars

\* r is x rounded to a whole number of hundredths, a half rounding up
RoundedTo(x, r) == r % 100 = 0 /\ x - 50 < r /\ r <= x + 50

\* the percentage rate of the delivery leg: the agent's own rate or the default 5
AgentRate(order) ==
  IF DeliveryCommissionRate[order.deliveryBoy] # -1
    THEN DeliveryCommissionRate[order.deliveryBoy] ELSE 5

\* C13 (as amended): for an order with a delivery agent, when the settings
\* enable the distance-based mode with a non-zero per-distance rate and the
\* order's distance is positive, the delivery record's base amount is the
\* distance and its commission is distance x per-distance rate, whatever the
\* subtotal; otherwise the base is the subtotal and the commission is
\* subtotal x percentage rate / 100 with the agent's own rate or the default.
\* The commission is rounded to hundredths; the record names the agent.
C13_DeliveryCommission ==
  (calc.op = "deliveryRecord" /\ calc.done) =>
    LET st == calc.settings
        o == calc.order
        r == calc.result
        byDistance == /\ st.present /\ st.isDistanceBased
                      /\ st.deliveryBoyKmRate # 0 /\ o.deliveryDistanceKm > 0
    IN /\ r.deliveryBoy = o.deliveryBoy
       /\ IF byDistance
            THEN /\ r.orderAmount = o.deliveryDistanceKm
                 /\ r.commissionRate = st.deliveryBoyKmRate
                 /\ RoundedTo(o.deliveryDistanceKm * st.deliveryBoyKmRate,
                              r.commissionAmount)
            ELSE /\ r.orderAmount = o.subtotal
                 /\ r.commissionRate = AgentRate(o)
                 /\ RoundedTo((o.subtotal * AgentRate(o)) \div 100, r.commissionAmount)

\* C13 as stated: the distance-based mode and a positive distance alone decide,
\* and the commission is the exact product.
C13_AsStated ==
  (calc.op = "deliveryRecord" /\ calc.done) =>
    LET st == calc.settings
        o == calc.order
        r == calc.result
        byDistance == st.present /\ st.isDistanceBased /\ o.deliveryDistanceKm > 0
    IN IF byDistance
         THEN /\ r.orderAmount = o.deliveryDistanceKm
              /\ r.commissionAmount = o.deliveryDistanceKm * st.deliveryBoyKmRate
         ELSE /\ r.orderAmount = o.subtotal
              /\ r.commissionAmount = (o.subtotal * AgentRate(o)) \div 100

\* C13 witness: 12.5 km at 8 per km on a subtotal of 1500.00 gives 100.00
C13_Witness ==
  /\ calc.op = "deliveryRecord" /\ calc.done
  /\ calc.settings.present /\ calc.settings.isDistanceBased
  /\ calc.settings.deliveryBoyKmRate = 8
  /\ calc.order.deliveryDistanceKm = 125000 /\ calc.order.subtotal = 15000000
  /\ calc.result.commissionAmount = 1000000
  /\ calc.result.orderAmount = 125000

\* C14: a settlement of an order that fails partway leaves none of the
\* order's commission records or wallet credits: the commission records, the
\* balances and the wallet transactions are as before the invocation.
C14_SettlementAllOrNothing ==
  [][\A o \in Orders, f \in FaultPoints :
       (/\ CreatePendingCommissionsUntil(o, f)
        /\ createPendingCommissionsUntil(Ledger, o, sellers, settings, f).threw)
       => UNCHANGED <<commissions, balance, walletTxns>>]_vars

SettleTasksOf(orderId) ==
  {t \in 1..Len(tasks) : tasks[t].op = "settle" /\ tasks[t].order = orderId}

\* C15: once two invocations of createPendingCommissions for the same order,
\* interleaved in any way, have both returned, every line item of the order
\* whose seller exists has exactly one commission record and one wallet credit.
C15_ConcurrentSettleOnce ==
  \A o \in Orders :
    (/\ Cardinality(SettleTasksOf(o)) >= 2
     /\ \A t \in SettleTasksOf(o) : tasks[t].phase = "done")
    => \A i \in ItemsOf(o) : OrderItem[i].seller \in sellers => SettledOnce(o, i)

\* quantity an order's items hold of a product
QuantityOf(orderId, product) ==
  LET items == OrderDoc[orderId].items
      qty[k \in 0..Len(items)] ==
        IF k = 0 THEN 0
        ELSE qty[k - 1] + (IF OrderItem[items[k]].product = product
                             THEN OrderItem[items[k]].quantity ELSE 0)
  IN qty[Len(items)]

\* reserved minus released quantity of a product over the tasks
RECURSIVE NetReserved(_, _)
NetReserved(product, t) ==
  IF t > Len(tasks) THEN 0
  ELSE (IF tasks[t].op = "reserve" THEN QuantityOf(tasks[t].order, product)
        ELSE IF tasks[t].op = "restore" THEN 0 - QuantityOf(tasks[t].order, product)
        ELSE 0)
       + NetReserved(product, t + 1)

\* C16: once the reserve and release operations of different orders,
\* interleaved in any way, have all returned, every product's reservedStock is
\* its initial value plus the reserved minus the released quantities.
C16_NoLostUpdate ==
  (\A t \in 1..Len(tasks) : tasks[t].phase = "done")
    => \A p \in Products :
         inventory[p].reservedStock =
           RaceInventory[p].reservedStock + NetReserved(p, 1)

PaidOf(orderId) ==
  {k \in CommissionsOfOrder(commissions, orderId) : commissions[k].status = "Paid"}

\* C17: reverseCommissions turns every Paid record of the given order into
\* Cancelled and appends one debit for each of them; every other commission
\* record (Pending, Cancelled, of another order) and every earlier wallet
\* transaction is unchanged, and no other debit is appended.
C17_ReverseOnlyPaid ==
  [][\A o \in Orders :
       ReverseCommissions(o) =>
         /\ Len(commissions') = Len(commissions)
         /\ \A k \in 1..Len(commissions) :
              commissions'[k] = IF k \in PaidOf(o)
                                  THEN [commissions[k] EXCEPT !.status = "Cancelled"]
                                  ELSE commissions[k]
         /\ Len(walletTxns') = Len(walletTxns) + Cardinality(PaidOf(o))
         /\ \A t \in 1..Len(walletTxns') :
              IF t <= Len(walletTxns) THEN walletTxns'[t] = walletTxns[t]
              ELSE /\ walletTxns'[t].type = "Debit"
                   /\ walletTxns'[t].reference.order = o]_vars

\* sum of the earnings of a payee's records whose status is in `statuses`
EarningSum(records, userId, userType, statuses) ==
  LET mine(c) == IF userType = "SELLER" THEN c.seller = userId
                 ELSE c.deliveryBoy = userId
      earning(c) == IF userType = "SELLER" THEN c.orderAmount - c.commissionAmount
                    ELSE c.commissionAmount
      sum[k \in 0..Len(records)] ==
        IF k = 0 THEN 0
        ELSE sum[k - 1] + (IF mine(records[k]) /\ records[k].status \in statuses
                             THEN earning(records[k]) ELSE 0)
  IN sum[Len(records)]

\* C18: the summary's total is the sum of the earnings of all of the payee's
\* records, paid the sum over the Paid ones and pending the sum over the
\* Pending ones, where the earning of a record is orderAmount - commissionAmount
\* for a seller and commissionAmount for a delivery agent; Cancelled records
\* count in total only.
C18_SummaryBuckets ==
  (calc.op = "summary" /\ calc.done) =>
    /\ calc.result.total =
         EarningSum(calc.records, calc.userId, calc.userType,
                    {"Pending", "Paid", "Cancelled"})
    /\ calc.result.paid =
         EarningSum(calc.records, calc.userId, calc.userType, {"Paid"})
    /\ calc.result.pending =
         EarningSum(calc.records, calc.userId, calc.userType, {"Pending"})

\* C18 witness: a seller with a Paid, a Pending and a Cancelled record of
\* 1000.00 at commission 100.00 each
C18_Witness ==
  /\ calc.op = "summary" /\ calc.done
  /\ calc.userId = "sA" /\ calc.userType = "SELLER"
  /\ calc.result = [total |-> 27000000, paid |-> 9000000, pending |-> 9000000,
                    count |-> 3]

\* C19: when an order with an assigned delivery agent makes the transition to
\* Delivered, the order has afterwards exactly one commission record for the
\* delivery leg and the transition has credited the agent its commission amount.
C19_DeliveredPaysDeliveryLeg ==
  [][\A o \in Orders, now \in {clock, clock + 1} :
       (/\ ApplyTransition(o, "Delivered", now)
        /\ status[o] = "Out for Delivery"
        /\ OrderDoc[o].deliveryBoy # NoValue)
       => LET legs == {k \in 1..Len(commissions') :
                         /\ commissions'[k].order = o
                         /\ commissions'[k].deliveryBoy = OrderDoc[o].deliveryBoy}
          IN /\ Cardinality(legs) = 1
             /\ \A k \in legs :
                  balance'[OrderDoc[o].deliveryBoy] =
                    balance[OrderDoc[o].deliveryBoy] + commissions'[k].commissionAmount]_vars

\* C20: when an order that has Paid commission records makes the transition
\* Delivered to Returned, none of its records is Paid afterwards: each has
\* become Cancelled and a debit has been appended for each.
C20_ReturnedReverses ==
  [][\A o \in Orders :
       (/\ ApplyTransition(o, "Returned", clock)
        /\ status[o] = "Delivered"
        /\ PaidOf(o) # {})
       => /\ \A k \in PaidOf(o) : commissions'[k].status = "Cancelled"
          /\ Len(walletTxns') = Len(walletTxns) + Cardinality(PaidOf(o))]_vars

\* C21: when an order with commission records makes the transition to
\* Cancelled from Processed or Shipped, none of its commission records is Paid
\* afterwards (the reversal has run after the inventory release).
C21_CancelReverses ==
  [][\A o \in Orders :
       (/\ ApplyTransition(o, "Cancelled", clock)
        /\ status[o] \in {"Processed", "Shipped"}
        /\ CommissionsOfOrder(commissions, o) # {})
       => \A k \in CommissionsOfOrder(commissions', o) :
            commissions'[k].status # "Paid"]_vars

\* C22: reservedStock <= currentStock for every inventory record, in every
\* state after a completed inventory operation.
C22_ReservedWithinCurrent ==
  \A p \in DOMAIN inventory :
    inventory[p].reservedStock <= inventory[p].currentStock

\* C23: no operation updates or deletes a wallet transaction: every step
\* keeps the existing entries as they are and at most appends entries, and the
\* entries a reversal appends are Debit entries.
C23_AppendOnly ==
  [][/\ Len(walletTxns') >= Len(walletTxns)
     /\ \A t \in 1..Len(walletTxns) : walletTxns'[t] = walletTxns[t]
     /\ \A o \in Orders :
          ReverseCommissions(o) =>
            \A t \in (Len(walletTxns) + 1)..Len(walletTxns') :
              walletTxns'[t].type = "Debit"]_vars

\* C23 witness: a settlement credit and, after it, the debit of its reversal
C23_Witness ==
  \E t1 \in 1..Len(walletTxns), t2 \in 1..Len(walletTxns) :
    /\ t1 < t2
    /\ walletTxns[t1].type = "Credit" /\ walletTxns[t1].status = "Completed"
    /\ walletTxns[t2].type = "Debit"
    /\ walletTxns[t2].payee = walletTxns[t1].payee
    /\ walletTxns[t2].reference.order = walletTxns[t1].reference.order

\* C24: no two wallet transactions carry the same reference, also when the
\* Delivered hook runs twice for the same order and seller within one clock
\* tick.
C24_ReferencesUnique ==
  \A t1 \in 1..Len(walletTxns), t2 \in 1..Len(walletTxns) :
    t1 # t2 => walletTxns[t1].reference # walletTxns[t2].reference

\* C24 witness: the hook ran twice for order o2 within tick 0; the seller's
\* balance was raised twice and the collection holds one Credit entry
C24_Witness ==
  /\ clock = 0
  /\ Len(commissions) = 2
  /\ \A k \in 1..Len(commissions) :
       commissions[k].order = "o2" /\ commissions[k].type = NoValue
  /\ balance["sA"] = 3600000
  /\ Len(walletTxns) = 1
  /\ walletTxns[1].reference =
       [kind |-> "ORD", order |-> "o2", token |-> 0, payee |-> "sA"]

RECURSIVE SumOf(_, _)
SumOf(f, S) ==
  IF S = {} THEN 0
  ELSE LET x == CHOOSE y \in S : TRUE
       IN f[x] + SumOf(f, S \ {x})

\* all seller balances and customer wallet amounts together
TotalMoney(bal, wal) == SumOf(bal, SellerIds) + SumOf(wal, CustomerIds)

\* C25: a fund transfer leaves the sum of all seller balances and customer
\* wallet amounts as it was, also when source and destination are the same
\* account; a transfer that is not accepted (amount <= 0, amount above the
\* source balance) changes no balance.
C25_TransferConserves ==
  [][\A from \in TransferAccounts, to \in TransferAccounts, a \in Amounts,
        keep \in {"from", "to"} :
       ProcessFundTransfer(from, to, a, keep) =>
         /\ TotalMoney(balance', walletAmount') = TotalMoney(balance, walletAmount)
         /\ ~transferAccepted(from, to, a) => UNCHANGED <<balance, walletAmount>>]_vars

\* C26: when the cache invalidation fails during a transition to Delivered,
\* Cancelled, Returned, Failed or Rejected, the transition still runs its
\* inventory and settlement effects, and it fails only if one of them fails.
C26_CacheFailureHarmless ==
  [][\A o \in Orders, ns \in CacheClearingStatuses, f \in CacheFailures,
        now \in {clock, clock + 1} :
       ProcessOrderStatusTransitionCacheFails(o, ns, now, f) =>
         LET r == statusEffects(inventory, Ledger, o, ns, status[o], sellers, now)
         IN /\ inventory' = r.inventory
            /\ commissions' = r.L.commissions
            /\ balance' = r.L.balance
            /\ walletTxns' = r.L.walletTxns
            /\ calc'.returned = ~r.threw]_vars

\* C27: when the Processed transition is applied again for an order whose
\* reservation is in place (the status was not persisted, nothing else wrote
\* the product since), each product's reservedStock stays at its value before
\* the first application plus the order's quantity.
C27_ProcessedReplayIdempotent ==
  [][\A o \in Orders :
       ProcessOrderStatusTransition(o, "Processed", clock) =>
         \A p \in ProductsOf(o) \cap DOMAIN inventory :
           (/\ preReserve[o][p] >= 0
            /\ inventory[p].reservedStock = preReserve[o][p] + QuantityOf(o, p))
           => inventory'[p].reservedStock = preReserve[o][p] + QuantityOf(o, p)]_vars

\* C28: a settlement invoked for an order when the sellers of all its line
\* items exist leaves every line item of the order with a commission record
\* and a wallet credit, also the items an earlier invocation skipped because
\* their seller was missing.
C28_SkippedItemReplayed ==
  [][\A o \in Orders :
       (/\ CreatePendingCommissions(o)
        /\ \A i \in ItemsOf(o) : OrderItem[i].seller \in sellers)
       => \A i \in ItemsOf(o) :
            /\ RecordsOfItem(o, i)' # {}
            /\ CreditsOf(o, OrderItem[i].seller)' # {}]_vars

\* C29: a settlement of an order that has no commission record yet gives every
\* line item whose seller exists its commission record and wallet credit and
\* gives an item whose seller is missing none, through createPendingCommissions
\* and through the Delivered hook alike.
C29_SkipOnlyMissing ==
  [][\A o \in Orders :
       /\ (CreatePendingCommissions(o) /\ CommissionsOfOrder(commissions, o) = {})
          => \A i \in ItemsOf(o) :
               IF OrderItem[i].seller \in sellers
                 THEN SettledOnce(o, i)'
                 ELSE RecordsOfItem(o, i)' = {}
       /\ \A now \in {clock, clock + 1} :
            (ApplyTransition(o, "Delivered", now) /\ status[o] = "Out for Delivery")
            => \A i \in ItemsOf(o) :
                 IF OrderItem[i].seller \in sellers
                   THEN /\ Cardinality(RecordsOfItem(o, i)') =
                             Cardinality(RecordsOfItem(o, i)) + 1
                        /\ \E t \in (Len(walletTxns) + 1)..Len(walletTxns') :
                             /\ walletTxns'[t].payee = OrderItem[i].seller
                             /\ walletTxns'[t].reference.order = o
                             /\ walletTxns'[t].type = "Credit"
                   ELSE RecordsOfItem(o, i)' = RecordsOfItem(o, i)]_vars

\* C29 witness: order o1 settled while seller sA was missing: item i1 skipped,
\* item i2 after it settled
C29_Witness ==
  /\ sellers = {"sB"}
  /\ RecordsOfItem("o1", "i1") = {}
  /\ SettledOnce("o1", "i2")

\* C30: a commission record's status changes only from Paid to Cancelled: no
\* step moves a record from Pending to Paid and no step moves a record out of
\* Cancelled.
C30_StatusOnlyPaidToCancelled ==
  [][\A k \in 1..Len(commissions) :
       (k <= Len(commissions') /\ commissions'[k].status # commissions[k].status)
       => /\ commissions[k].status = "Paid"
          /\ commissions'[k].status = "Cancelled"]_vars

\* credit entries a step appended for a seller
NewCreditsOf(sellerId) ==
  {t \in (Len(walletTxns) + 1)..Len(walletTxns') :
     walletTxns'[t].payee = sellerId /\ walletTxns'[t].type = "Credit"}

\* C31: in the Delivered hook a seller's balance update and the insertion of
\* the matching Credit wallet transaction take effect together: whether the
\* hook completes or fails, a seller's balance has changed by the amount of
\* the Credit entry inserted for the seller, and has not changed when none
\* was inserted.
C31_BalanceWithCredit ==
  [][\A o \in Orders : \A now \in {clock, clock + 1} :
       ProcessOrderStatusTransition(o, "Delivered", now)
       => \A s \in SellerIds :
            /\ Cardinality(NewCreditsOf(s)) <= 1
            /\ NewCreditsOf(s) = {} => balance'[s] = balance[s]
            /\ \A t \in NewCreditsOf(s) :
                 balance'[s] = balance[s] + walletTxns'[t].amount]_vars

\* C32: an invocation of reverseCommissions that fails partway (a commission
\* save or a wallet debit is rejected) leaves no commission status change and
\* no wallet debit: the commission records, the balances and the wallet
\* transactions are as before the invocation.
C32_ReverseAllOrNothing ==
  [][\A o \in Orders, f \in FaultPoints :
       (ReverseCommissionsUntil(o, f) /\ ~calc'.success)
       => UNCHANGED <<commissions, balance, walletTxns>>]_vars

\* C32 witness: a reversal failed after its first write and the order's Paid
\* records are still Paid
C32_Witness ==
  /\ calc.op = "reverseCommissions"
  /\ ~calc.success
  /\ calc.failAt >= 2
  /\ PaidOf(calc.order) # {}
  /\ \A t \in 1..Len(walletTxns) : walletTxns[t].type # "Debit"

\* session calls of the last invocation that settle its transaction
Settlements(session) ==
  {k \in 1..Len(session) : session[k] \in {"commitTransaction", "abortTransaction"}}

\* C38: every invocation of reverseCommissions and of distributeCommissions
\* that starts a transaction commits it or aborts it exactly once before it
\* ends its session, on every return path.
C38_CommitOrAbortOnce ==
  calc.op \in {"reverseCommissions", "distributeCommissions"}
  => /\ calc.session[1] = "startTransaction"
     /\ calc.session[Len(calc.session)] = "endSession"
     /\ Cardinality(Settlements(calc.session)) = 1

\* C33: a zero at the settings-provided global default is treated as not
\* configured: when every category level and the seller's own rate are zero
\* or unset and the settings global commission rate is 0, the resolved seller
\* rate is the hard-coded default of 10.
C33_ZeroGlobalFallsToDefault ==
  (/\ calc.op = "resolveRate" /\ calc.done
   /\ calc.subSubCat <= 0 /\ calc.subCat <= 0 /\ calc.cat <= 0 /\ calc.seller <= 0
   /\ calc.settings.present /\ calc.settings.globalCommissionRate = 0)
  => calc.result = DefaultGlobalCommissionRate

\* commission records a step appended for a seller's items of an order
NewRecordsOf(orderId, sellerId) ==
  {k \in (Len(commissions) + 1)..Len(commissions') :
     commissions'[k].order = orderId /\ commissions'[k].seller = sellerId}

\* line total minus commission, summed over the records in S
RECURSIVE NetOf(_, _)
NetOf(records, S) ==
  IF S = {} THEN 0
  ELSE LET k == CHOOSE x \in S : TRUE
       IN (records[k].orderAmount - records[k].commissionAmount) + NetOf(records, S \ {k})

\* C34: for every percentage-based seller settlement of a line item the
\* commission amount and the net earning credited to the seller add up to the
\* line total, and the commission amount lies between 0 and the line total
\* when the rate is between 0 and 100. createPendingCommissions credits each
\* item on its own; the Delivered hook credits a seller the net earnings of
\* the seller's items of the order in one entry.
C34_CommissionPlusNetIsTotal ==
  [][\A o \in Orders :
       /\ CreatePendingCommissions(o)
          => \A k \in (Len(commissions) + 1)..Len(commissions') :
               LET c == commissions'[k]
               IN /\ c.orderAmount = OrderItem[c.orderItem].total
                  /\ \E t \in (Len(walletTxns) + 1)..Len(walletTxns') :
                       /\ walletTxns'[t].reference.token = k
                       /\ walletTxns'[t].payee = c.seller
                       /\ c.commissionAmount + walletTxns'[t].amount = c.orderAmount
                  /\ (0 <= c.commissionRate /\ c.commissionRate <= 100)
                     => (0 <= c.commissionAmount /\ c.commissionAmount <= c.orderAmount)
       /\ \A now \in {clock, clock + 1} :
            (ApplyTransition(o, "Delivered", now) /\ status'[o] = "Delivered")
            => /\ \A s \in SellerIds :
                    NewRecordsOf(o, s) # {}
                    => \E t \in NewCreditsOf(s) :
                         walletTxns'[t].amount = NetOf(commissions', NewRecordsOf(o, s))
               /\ \A k \in (Len(commissions) + 1)..Len(commissions') :
                    LET c == commissions'[k]
                    IN /\ c.orderAmount = OrderItem[c.orderItem].total
                       /\ (0 <= c.commissionRate /\ c.commissionRate <= 100)
                          => (0 <= c.commissionAmount
                              /\ c.commissionAmount <= c.orderAmount)]_vars

\* C34 witness: order o1 settled by createPendingCommissions for both sellers,
\* order o2 by the Delivered hook
C34_Witness ==
  /\ SettledOnce("o1", "i1") /\ SettledOnce("o1", "i2")
  /\ status["o2"] = "Delivered"
  /\ CreditsOf("o2", "sA") # {}

\* C35: the commission amount persisted on a commission record and the amount
\* credited to the wallet are whole numbers of hundredths, the commission
\* being total * rate / 100 rounded half away from zero (3.33 at 10% persists
\* 0.33).
C35_PersistedInHundredths ==
  (calc.op = "settleItem" /\ calc.done)
  => LET c == calc.result.commissions[1]
     IN /\ RoundedTo((calc.item.total * c.commissionRate) \div 100, c.commissionAmount)
        /\ calc.result.walletTxns[1].amount % 100 = 0

\* a transition that reserves (entering Processed) or releases (entering
\* Cancelled from Processed or Shipped)
WritesInventory(newStatus, previousStatus) ==
  \/ newStatus = "Processed"
  \/ newStatus = "Cancelled" /\ previousStatus \in {"Processed", "Shipped"}

\* C36: among status transitions only entering Processed and entering
\* Cancelled from Processed or Shipped change an inventory record: in every
\* state the order pipeline reaches, the effects of every other transition of
\* every order leave reservedStock, currentStock and availableStock of every
\* product as they are.
C36_OtherTransitionsKeepInventory ==
  \A o \in Orders, ns \in StatusInputs :
    ~WritesInventory(ns, status[o])
    => statusEffects(inventory, Ledger, o, ns, status[o], sellers, clock).inventory
         = inventory

\* C36 witness: order o1 was reserved, shipped, delivered and returned, and
\* what it reserved of product p1 is still reserved; order o2 was cancelled
\* before it was processed
C36_Witness ==
  /\ status["o1"] = "Returned"
  /\ status["o2"] = "Cancelled"
  /\ preReserve["o1"]["p1"] >= 0
  /\ preReserve["o2"]["p1"] = -1
  /\ inventory["p1"].reservedStock = preReserve["o1"]["p1"] + 2

\* in the commission records `records`, every line item of the order whose
\* seller exists has a record
ItemsHaveRecords(records, orderId) ==
  \A i \in ItemsOf(orderId) :
    OrderItem[i].seller \in sellers
    => \E k \in 1..Len(records) :
         records[k].order = orderId /\ records[k].orderItem = i

\* in `records`, the order has a delivery commission record
HasDeliveryRecord(records, orderId) ==
  \E k \in 1..Len(records) :
    records[k].order = orderId /\ records[k].type = "DELIVERY_BOY"

\* C37: for an order with an assigned delivery agent, once both settlement
\* operations have run, in either order, every line item with an existing
\* seller has a commission record and the delivery agent has a delivery
\* record. In every state: when distributeCommissions has given the order its
\* delivery record, a run of createPendingCommissions leaves every line item
\* with an existing seller with a record; when createPendingCommissions has
\* given a delivered order its seller records, a run of distributeCommissions
\* leaves the order with its delivery record.
C37_BothRunEitherOrder ==
  \A o \in Orders :
    OrderDoc[o].deliveryBoy # NoValue
    => /\ HasDeliveryRecord(commissions, o)
          => ItemsHaveRecords(
               createPendingCommissions(Ledger, o, sellers, settings).commissions, o)
       /\ (/\ status[o] = "Delivered"
           /\ \E k \in CommissionsOfOrder(commissions, o) :
                commissions[k].type = "SELLER")
          => HasDeliveryRecord(
               distributeCommissions(Ledger, o, status[o], settings).L.commissions, o)

\* Debit entries of an order
DebitsOf(orderId) ==
  {t \in 1..Len(walletTxns) :
     walletTxns[t].type = "Debit" /\ walletTxns[t].reference.order = orderId}

CancelledOf(orderId) ==
  {k \in CommissionsOfOrder(commissions, orderId) : commissions[k].status = "Cancelled"}

\* C39: reverseCommissions is idempotent. In every state, running it on an
\* order leaves no Paid record of the order, and running it again on what the
\* first run left changes no commission record, balance or wallet transaction;
\* an order never has more debits than Cancelled records.
C39_ReverseIdempotent ==
  \A o \in Orders :
    LET once == reverseCommissions(Ledger, o)
    IN /\ \A k \in CommissionsOfOrder(once.commissions, o) :
            once.commissions[k].status # "Paid"
       /\ reverseCommissions(once, o) = once
       /\ Cardinality(DebitsOf(o)) <= Cardinality(CancelledOf(o))

\* C39 witness: order o2 was reversed: its record is Cancelled and it has one
\* debit, so a retry finds no Paid record
C39_Witness ==
  /\ Cardinality(CancelledOf("o2")) = 1
  /\ PaidOf("o2") = {}
  /\ Cardinality(DebitsOf("o2")) = 1

\* sum of the commission amounts of the records in S
RECURSIVE CommissionSum(_, _)
CommissionSum(records, S) ==
  IF S = {} THEN 0
  ELSE LET k == CHOOSE x \in S : TRUE
       IN records[k].commissionAmount + CommissionSum(records, S \ {k})

\* C40: for every order and every seller of its line items whose document
\* exists, the rate calculateOrderCommissions reports for the seller is the
\* rate of the records createPendingCommissions persists for the seller's
\* items, and the reported amount is the sum of their commission amounts.
C40_CalculatedEqualsPersisted ==
  (calc.op = "orderCommissions" /\ calc.done)
  => \A s \in calc.existing :
       LET records == {k \in 1..Len(calc.persisted) : calc.persisted[k].seller = s}
       IN records # {}
          => /\ calc.calculated[s].has
             /\ \A k \in records :
                  calc.persisted[k].commissionRate = calc.calculated[s].rate
             /\ CommissionSum(calc.persisted, records) = calc.calculated[s].amount

====
